---- MODULE Spec2Model ----
(***************************************************************************)
(* Delivery tracking and staff/client assignment of the Milk Farm CRM      *)
(* server: the staff controller (src/unnamed/part_000) working on the      *)
(* Staff, Client and DailyDelivery collections (src/unnamed/part_001).     *)
(* Every request handler is one action; the response it sends is kept in   *)
(* the variable last.                                                      *)
(***************************************************************************)
EXTENDS Integers, Sequences, FiniteSets, TLC

(* ---------------------------- bounds ----------------------------------- *)
\* length of a calendar day in clock ticks (24 * 60 * 60 * 1000 ms in the code)
DayLen == 2
\* the clock runs from 0 to MaxNow
MaxNow == 2
\* largest offset of the server's local time to UTC, in ticks
MaxTz == 1
\* the model follows the system until MaxServed recording requests were
\* served with success
MaxServed == 2
\* largest number of requests that are between their reads and their writes
MaxPending == 2
\* largest number of documents of the StaffSession collection
MaxSessions == 2

\* the calendar: the days of a week and of a month, the months of a year
DaysPerWeek == 2
DaysPerMonth == 2
MonthsPerYear == 2
\* the length of a month in ticks
MonthLen == DaysPerMonth * DayLen

(* ---------------------------- fixtures --------------------------------- *)
StaffIds == {"s1", "s2"}
Clients == {"c1", "c2"}
Users == {"u1", "u2"}
NoUser == "nouser"
NoStaff == "nostaff"
Shifts == {"AM", "PM"}
NoShift == ""
Reasons == {"gate locked"}
NoReason == ""
NoDate == -100
\* a response without the text of an error
NoError == ""
\* an id that resolves to no client document
NoSuchClient == "c9"
\* a string that is no ObjectId
BadId == "bad id"
\* a shift name the settings do not list
OtherShift == "NIGHT"
\* getSetting("shifts")
validShifts == Shifts
ClientIds == Clients \cup {NoSuchClient}
\* the ids the ledger requests can name
StaffInputs == StaffIds \cup {BadId}
ClientInputs == ClientIds \cup {BadId}
\* the client ids of the recording requests
Recorded == {"c1", NoSuchClient}

\* Staff.userId: the account a staff profile belongs to
userId == [s \in StaffIds |-> IF s = "s1" THEN "u1" ELSE "u2"]
\* Staff.name
name == [s \in StaffIds |-> IF s = "s1" THEN "Asha" ELSE "Bala"]
\* the User collection and User.role
Accounts == {"u1", "u2", "u3", "u4", "u5"}
role == [u \in Accounts |-> IF u = "u5" THEN "admin" ELSE "staff"]
\* a user id without a document
NoSuchUser == "u9"
\* the user ids the directory requests can name
UserInputs == Accounts \cup {NoSuchUser, BadId}
\* the _id values of the Staff documents created by getByUserId, in order
NewStaffIds == <<"s3", "s4">>
\* the Client collection in its natural order
ClientOrder == <<"c1", "c2">>
\* Client.timeShift, Client.quantity, Client.pricePerLitre
timeShift == [c \in Clients |-> IF c = "c1" THEN "AM" ELSE "PM"]
quantity == [c \in Clients |-> IF c = "c1" THEN 5 ELSE 2]
pricePerLitre == [c \in Clients |-> IF c = "c1" THEN 10 ELSE 3]

VARIABLES
    staffSet,        \* ids of the documents of the Staff collection
    assignedClients, \* Staff.assignedClients, an array of client ids
    assignedStaff,   \* Client.assignedStaff, NoStaff when unset
    deliveries,      \* the DailyDelivery collection
    deliveryStatus,  \* Client.deliveryStatus
    deliveryNotes,   \* Client.deliveryNotes
    deliveryHistory, \* Client.deliveryHistory
    now,             \* the clock, in ticks since the epoch (UTC)
    served,          \* number of recording requests served with success
    tz,              \* offset of the server's local time to UTC, in ticks
    sessions,        \* the StaffSession collection, in insertion order
    pending,         \* the requests between their reads and their writes
    directory,       \* the Staff documents created by getByUserId, in order
    report,          \* the last answer of the Aggregation Engine
    last             \* the last request and its response

vars == <<staffSet, assignedClients, assignedStaff, deliveries, deliveryStatus,
          deliveryNotes, deliveryHistory, now, tz, served, sessions, pending,
          directory, report, last>>

ledgerVars == <<staffSet, assignedClients, assignedStaff>>
clientVars == <<deliveryStatus, deliveryNotes, deliveryHistory>>
timeVars == <<now, tz>>
flightVars == <<sessions, pending, directory, report>>

(* ---------------------------- helpers ---------------------------------- *)
Range(f) == {f[i] : i \in DOMAIN f}

\* what is observed of the last request: the handler, the status code and
\* message of its response and, when it succeeded, the request it answered
\* (existed: a document for the key of the request was there before it)
Response(op, s, c, u, sh, rs, d, ex, st, m) ==
    IF st = 200
    THEN [op |-> op, staffId |-> s, clientId |-> c, user |-> u, shift |-> sh,
          reason |-> rs, date |-> d, existed |-> ex, status |-> st, msg |-> m,
          clientCount |-> 0, details |-> NoError]
    ELSE [op |-> op, staffId |-> NoStaff, clientId |-> "", user |-> NoUser,
          shift |-> NoShift, reason |-> NoReason, date |-> NoDate,
          existed |-> FALSE, status |-> st, msg |-> m, clientCount |-> 0,
          details |-> NoError]

\* d.setHours(0, 0, 0, 0): midnight of the local day that holds instant t
LocalMidnight(t) == ((t + tz) \div DayLen) * DayLen - tz
\* new Date().toISOString().split("T")[0] cast to a Date: midnight UTC
UtcMidnight(t) == (t \div DayLen) * DayLen
today == LocalMidnight(now)
\* { $gte: today, $lt: today + 24h }
InToday(d) == d >= today /\ d < today + DayLen

\* the index { clientId: 1, date: 1, shift: 1 } built without unique: true
PlainIndex(coll) == TRUE

\* the unique index { clientId: 1, date: 1, shift: 1 }
UniqueIndex(coll) ==
    \A r1, r2 \in coll :
        (r1.clientId = r2.clientId /\ r1.date = r2.date /\ r1.shift = r2.shift)
            => r1 = r2

\* the check whether the client has any assigned staff, in place of the
\* check whether it is in the set of this one
IsAssignedToAnyone(s, c) == c \in Clients /\ assignedStaff[c] # NoStaff

\* staff.assignedClients.some((id) => id.toString() === clientId)
IsAssigned(s, c) == c \in Range(assignedClients[s])

Init ==
    /\ staffSet = StaffIds
    /\ assignedClients = [s \in StaffIds |-> <<>>]
    /\ assignedStaff = [c \in Clients |-> NoStaff]
    /\ deliveries = {}
    /\ deliveryStatus = [c \in Clients |-> "Pending"]
    /\ deliveryNotes = [c \in Clients |-> NoReason]
    /\ deliveryHistory = [c \in Clients |-> <<>>]
    /\ now = 0
    /\ served = 0
    /\ tz \in 0..MaxTz
    /\ sessions = <<>>
    /\ pending = {}
    /\ directory = <<>>
    /\ report = [op |-> "init"]
    /\ last = Response("init", NoStaff, "", NoUser, NoShift, NoReason, NoDate,
                       FALSE, 0, "")

(* ---------------------------- the clock -------------------------------- *)
Tick ==
    /\ now < MaxNow
    /\ now' = now + 1
    /\ UNCHANGED <<flightVars, ledgerVars, deliveries, clientVars, tz, served, last>>

(* ---------------------------- Assignment Ledger ------------------------ *)
\* mongoose.Types.ObjectId.isValid(id)
ValidId(id) == id # BadId

\* staff.assignedClients.push(clientId) followed by staff.save(): the new
\* element is appended to the stored array
PushClient(ac, staffId, clientId) ==
    [ac EXCEPT ![staffId] = Append(@, clientId)]

\* client.assignedStaff = staffId followed by client.save()
SetAssignedStaff(as, clientId, staffId) == [as EXCEPT ![clientId] = staffId]

\* a removal that empties the array of the staff
PullAllClients(ac, staffId, clientId) == [ac EXCEPT ![staffId] = <<>>]

\* staff.assignedClients.filter((id) => id.toString() !== clientId)
PullClient(ac, staffId, clientId) ==
    [ac EXCEPT ![staffId] = SelectSeq(@, LAMBDA id : id # clientId)]

\* a removal that leaves the back-reference of the client as it was
KeepAssignedStaff(as, clientId) == as

\* client.assignedStaff = undefined followed by client.save()
ClearAssignedStaff(as, clientId) == [as EXCEPT ![clientId] = NoStaff]

\* the checks of assignClient on the documents it has read: the status and
\* message of the response they lead to, 200 when they all pass
AssignCheck(staffId, clientId) ==
    IF ~ValidId(staffId) \/ ~ValidId(clientId)
    THEN <<400, "Invalid ID format">>
    ELSE IF staffId \notin staffSet
    THEN <<404, "Staff member not found">>
    ELSE IF clientId \notin Clients
    THEN <<404, "Client not found">>
    ELSE IF IsAssigned(staffId, clientId)
    THEN <<400, "Client already assigned to this staff member">>
    ELSE IF assignedStaff[clientId] # NoStaff
    THEN <<400, "Client is already assigned to another staff member. Please unassign first.">>
    ELSE <<200, "Assignment successful">>

\* the request served without another request in between
assignClient(staffId, clientId) ==
    LET chk == AssignCheck(staffId, clientId)
    IN
    /\ UNCHANGED <<flightVars, deliveries, clientVars, timeVars, served>>
    /\ last' = Response("assignClient", staffId, clientId, NoUser, NoShift,
                        NoReason, NoDate, FALSE, chk[1], chk[2])
    /\ IF chk[1] # 200
       THEN UNCHANGED ledgerVars
       ELSE /\ assignedClients' = PushClient(assignedClients, staffId, clientId)
            /\ assignedStaff' = SetAssignedStaff(assignedStaff, clientId, staffId)
            /\ UNCHANGED staffSet

removeAssignment(staffId, clientId) ==
    LET R(st, m) == Response("removeAssignment", staffId, clientId, NoUser,
                             NoShift, NoReason, NoDate, FALSE, st, m)
    IN
    /\ UNCHANGED <<flightVars, deliveries, clientVars, timeVars, served>>
    /\ IF ~ValidId(staffId) \/ ~ValidId(clientId)
       THEN /\ last' = R(400, "Invalid ID format")
            /\ UNCHANGED ledgerVars
       ELSE IF staffId \notin staffSet
       THEN /\ last' = R(404, "Staff member not found")
            /\ UNCHANGED ledgerVars
       ELSE IF clientId \notin Clients
       THEN /\ last' = R(404, "Client not found")
            /\ UNCHANGED ledgerVars
       ELSE IF ~IsAssigned(staffId, clientId)
       THEN /\ last' = R(400, "This client is not assigned to this staff member")
            /\ UNCHANGED ledgerVars
       ELSE /\ assignedClients' = PullClient(assignedClients, staffId, clientId)
            /\ assignedStaff' = ClearAssignedStaff(assignedStaff, clientId)
            /\ last' = R(200, "Assignment removed successfully")
            /\ UNCHANGED staffSet

\* every assigned client that exists, whatever its shift
AllClientIds(ids, shift) == SelectSeq(ClientOrder, LAMBDA c : c \in Range(ids))

\* the clients of staff.assignedClients whose timeShift is shift, as
\* Client.find({ _id: { $in: ... } }) returns them
FilteredClientIds(ids, shift) ==
    SelectSeq(ClientOrder, LAMBDA c : c \in Range(ids) /\ timeShift[c] = shift)

updateAssignedClients(staffId, shift) ==
    LET R(st, m) == Response("updateAssignedClients", staffId, "", NoUser, shift,
                             NoReason, NoDate, FALSE, st, m)
    IN
    /\ UNCHANGED <<flightVars, deliveries, clientVars, timeVars, assignedStaff,
                   staffSet, served>>
    /\ IF ~ValidId(staffId)
       THEN /\ last' = R(400, "Invalid staff ID format")
            /\ UNCHANGED assignedClients
       ELSE IF shift \notin {"AM", "PM"}
       THEN /\ last' = R(400, "Valid shift (AM or PM) is required")
            /\ UNCHANGED assignedClients
       ELSE IF staffId \notin staffSet
       THEN /\ last' = R(404, "Staff member not found")
            /\ UNCHANGED assignedClients
       ELSE LET filteredClientIds ==
                    FilteredClientIds(assignedClients[staffId], shift)
            IN /\ assignedClients' =
                    [assignedClients EXCEPT ![staffId] = filteredClientIds]
               /\ last' = [R(200, "Successfully updated assigned clients")
                             EXCEPT !.clientCount = Len(filteredClientIds)]

remove(staffId) ==
    LET R(st, m) == Response("remove", staffId, "", NoUser, NoShift, NoReason,
                             NoDate, FALSE, st, m)
    IN
    /\ UNCHANGED <<flightVars, deliveries, clientVars, timeVars, assignedStaff,
                   served>>
    /\ IF staffId \notin staffSet
       THEN /\ last' = R(404, "Staff member not found")
            /\ UNCHANGED <<staffSet, assignedClients>>
       ELSE /\ staffSet' = staffSet \ {staffId}
            /\ assignedClients' =
                [s \in staffSet \ {staffId} |-> assignedClients[s]]
            /\ last' = R(200, "Staff member deleted successfully")

(* ---------------------------- Delivery Recorder ------------------------ *)
\* a new DailyDelivery document with the defaults of its schema
NewDelivery ==
    [clientId |-> "", staffId |-> NoStaff,
     date |-> today, shift |-> NoShift, deliveryStatus |-> "Not Delivered",
     quantity |-> 0, price |-> 0, notes |-> NoReason]

\* the collections DailyDelivery.findOneAndUpdate(filter, { $set }, { upsert })
\* can leave: one of the documents matching the filter is updated, or, when
\* none matches, a new document is inserted
\* (set maps each matching document to its updated form, inserted is the
\* $set applied to a new document)
Upsert(matches, set, inserted) ==
    IF matches # {}
    THEN {(deliveries \ {r}) \cup {set[r]} : r \in matches}
    ELSE {deliveries \cup {inserted}}

\* the collections delivery.save() can leave for a document found by findOne
\* (one of matches), or for a new document when none was found
\* (update maps each matching document to its updated form)
FindOneThenSave(matches, update, Create) ==
    IF matches # {}
    THEN {(deliveries \ {r}) \cup {update[r]} : r \in matches}
    ELSE {deliveries \cup {Create}}

\* the filter { clientId, staffId, date: { $gte: today, $lt: tomorrow } }
DailyFilter(staffId, clientId) ==
    {r \in deliveries :
        r.clientId = clientId /\ r.staffId = staffId /\ InToday(r.date)}

\* the documents of the key (clientId, today, shift)
KeyFilter(clientId, shift) ==
    {r \in deliveries :
        r.clientId = clientId /\ r.date = today /\ r.shift = shift}

\* the filter { clientId, date: { $gte: today, $lt: tomorrow } }
ClientTodayFilter(clientId) ==
    {r \in deliveries : r.clientId = clientId /\ InToday(r.date)}

\* the filter { staffId, clientId, date }
ExactDateFilter(staffId, clientId, date) ==
    {r \in deliveries :
        r.staffId = staffId /\ r.clientId = clientId
        /\ r.date = (IF date = NoDate THEN UtcMidnight(now) ELSE date)}

\* the $set of markClientDailyDelivered
DailyDeliveredSet(r, staffId, clientId, shift) ==
    [r EXCEPT !.clientId = clientId, !.staffId = staffId, !.date = today,
              !.shift = shift, !.deliveryStatus = "Delivered",
              !.quantity = quantity[clientId],
              !.price = quantity[clientId] * pricePerLitre[clientId]]

\* the $set of markClientDailyUndelivered
DailyUndeliveredSet(r, staffId, clientId, shift, reason) ==
    [r EXCEPT !.clientId = clientId, !.staffId = staffId, !.date = today,
              !.shift = shift, !.deliveryStatus = "Not Delivered",
              !.quantity = 0, !.price = 0, !.notes = reason]

\* the bound of the model: room for one more served request
Room == served < MaxServed

\* counts the request when it was served with success
Served == served' = IF last'.status = 200 THEN served + 1 ELSE served

markClientDailyDelivered(staffId, clientId, shift) ==
    LET matches == DailyFilter(staffId, clientId)
        existed == KeyFilter(clientId, shift) # {}
        R(st, m) == Response("markClientDailyDelivered", staffId, clientId,
                             NoUser, shift, NoReason, NoDate, existed, st, m)
        Set(r) == DailyDeliveredSet(r, staffId, clientId, shift)
    IN
    /\ Room
    /\ UNCHANGED <<flightVars, ledgerVars, timeVars>>
    /\ IF shift = NoShift
       THEN /\ last' = R(400, "Shift is required")
            /\ UNCHANGED <<deliveries, clientVars>>
       ELSE IF staffId \notin staffSet
       THEN /\ last' = R(404, "Staff member not found")
            /\ UNCHANGED <<deliveries, clientVars>>
       ELSE IF clientId \notin Clients
       THEN /\ last' = R(404, "Client not found")
            /\ UNCHANGED <<deliveries, clientVars>>
       ELSE IF ~IsAssigned(staffId, clientId)
       THEN /\ last' = R(400, "This client is not assigned to this staff member")
            /\ UNCHANGED <<deliveries, clientVars>>
       ELSE \E coll \in Upsert(matches, [r \in matches |-> Set(r)],
                                   Set(NewDelivery)) :
            IF ~UniqueIndex(coll)
            THEN /\ last' = R(500, "E11000 duplicate key error")
                 /\ UNCHANGED <<deliveries, clientVars>>
            ELSE /\ deliveries' = coll
                 /\ deliveryStatus' = [deliveryStatus EXCEPT ![clientId] = "Delivered"]
                 /\ deliveryHistory' =
                        [deliveryHistory EXCEPT ![clientId] =
                            Append(@, [date |-> today, status |-> "Delivered",
                                       quantity |-> quantity[clientId],
                                       reason |-> NoReason])]
                 /\ UNCHANGED deliveryNotes
                 /\ last' = R(200, "Delivery marked as completed")
    /\ Served

\* a handler that takes every reason
ReasonNeverMissing(reason) == FALSE

\* !reason
ReasonMissing(reason) == reason = NoReason

markClientDailyUndelivered(staffId, clientId, shift, reason) ==
    LET matches == DailyFilter(staffId, clientId)
        existed == KeyFilter(clientId, shift) # {}
        R(st, m) == Response("markClientDailyUndelivered", staffId, clientId,
                             NoUser, shift, reason, NoDate, existed, st, m)
        Set(r) == DailyUndeliveredSet(r, staffId, clientId, shift, reason)
    IN
    /\ Room
    /\ UNCHANGED <<flightVars, ledgerVars, timeVars>>
    /\ IF shift = NoShift
       THEN /\ last' = R(400, "Shift is required")
            /\ UNCHANGED <<deliveries, clientVars>>
       ELSE IF ReasonMissing(reason)
       THEN /\ last' = R(400, "Reason is required for non-delivery")
            /\ UNCHANGED <<deliveries, clientVars>>
       ELSE IF staffId \notin staffSet
       THEN /\ last' = R(404, "Staff member not found")
            /\ UNCHANGED <<deliveries, clientVars>>
       ELSE IF clientId \notin Clients
       THEN /\ last' = R(404, "Client not found")
            /\ UNCHANGED <<deliveries, clientVars>>
       ELSE IF ~IsAssigned(staffId, clientId)
       THEN /\ last' = R(400, "This client is not assigned to this staff member")
            /\ UNCHANGED <<deliveries, clientVars>>
       ELSE \E coll \in Upsert(matches, [r \in matches |-> Set(r)],
                                   Set(NewDelivery)) :
            IF ~UniqueIndex(coll)
            THEN /\ last' = R(500, "E11000 duplicate key error")
                 /\ UNCHANGED <<deliveries, clientVars>>
            ELSE /\ deliveries' = coll
                 /\ deliveryStatus' =
                        [deliveryStatus EXCEPT ![clientId] = "Not Delivered"]
                 /\ deliveryNotes' = [deliveryNotes EXCEPT ![clientId] = reason]
                 /\ deliveryHistory' =
                        [deliveryHistory EXCEPT ![clientId] =
                            Append(@, [date |-> today, status |-> "Not Delivered",
                                       quantity |-> 0, reason |-> reason])]
                 /\ last' = R(200, "Client marked as not delivered")
    /\ Served

\* Staff.findOne({ userId: req.user._id })?._id
StaffOfUser(user) ==
    IF \E s \in staffSet : userId[s] = user
    THEN CHOOSE s \in staffSet : userId[s] = user
    ELSE NoStaff

\* the update of an existing document in markClientDelivered
ClientDeliveredUpdate(r, clientId, user) ==
    [r EXCEPT !.deliveryStatus = "Delivered", !.quantity = quantity[clientId],
              !.price = quantity[clientId] * pricePerLitre[clientId],
              !.staffId = user]

\* the new document of markClientDelivered; the pre-save hook normalizes its
\* date to midnight
ClientDeliveredCreate(clientId, user) ==
    [NewDelivery EXCEPT !.clientId = clientId, !.staffId = user,
                        !.date = LocalMidnight(now),
                        !.shift = timeShift[clientId],
                        !.deliveryStatus = "Delivered",
                        !.quantity = quantity[clientId],
                        !.price = quantity[clientId] * pricePerLitre[clientId]]

\* the update of markClientUndelivered without the reset of quantity and price
ClientUndeliveredUpdateKeepsQuantity(r, staffId, reason) ==
    [r EXCEPT !.deliveryStatus = "Not Delivered", !.notes = reason,
              !.staffId = IF staffId # NoStaff THEN staffId ELSE @]

\* the update of an existing document in markClientUndelivered
ClientUndeliveredUpdate(r, staffId, reason) ==
    [r EXCEPT !.deliveryStatus = "Not Delivered", !.quantity = 0, !.price = 0,
              !.notes = reason,
              !.staffId = IF staffId # NoStaff THEN staffId ELSE @]

\* the new document of markClientUndelivered
ClientUndeliveredCreate(clientId, staffId, reason) ==
    [NewDelivery EXCEPT !.clientId = clientId, !.staffId = staffId,
                        !.date = LocalMidnight(now),
                        !.shift = timeShift[clientId],
                        !.deliveryStatus = "Not Delivered",
                        !.quantity = 0, !.price = 0, !.notes = reason]

\* schema validation on save: staffId and shift are required
Valid(coll) ==
    \A r \in coll : r.staffId \notin {NoStaff, NoUser} /\ r.shift \in Shifts

markClientDelivered(clientId, user) ==
    LET matches == ClientTodayFilter(clientId)
        R(st, m) == Response("markClientDelivered", NoStaff, clientId, user,
                             NoShift, NoReason, NoDate, matches # {}, st, m)
        Update(r) == ClientDeliveredUpdate(r, clientId, user)
    IN
    /\ Room
    /\ UNCHANGED <<flightVars, ledgerVars, timeVars, deliveryNotes, deliveryHistory>>
    /\ IF clientId \notin Clients
       THEN /\ last' = R(404, "Client not found")
            /\ UNCHANGED <<deliveries, deliveryStatus>>
       ELSE \E coll \in FindOneThenSave(matches, [r \in matches |-> Update(r)],
                                        ClientDeliveredCreate(clientId, user)) :
            IF ~Valid(coll)
            THEN /\ last' = R(500, "Error updating delivery status")
                 /\ UNCHANGED <<deliveries, deliveryStatus>>
            ELSE /\ deliveries' = coll
                 /\ deliveryStatus' = [deliveryStatus EXCEPT ![clientId] = "Delivered"]
                 /\ last' = R(200, "Client marked as delivered")
    /\ Served

markClientUndelivered(clientId, user, reason) ==
    LET matches == ClientTodayFilter(clientId)
        R(st, m) == Response("markClientUndelivered", NoStaff, clientId, user,
                             NoShift, reason, NoDate, matches # {}, st, m)
        staffId == StaffOfUser(user)
        Update(r) == ClientUndeliveredUpdate(r, staffId, reason)
    IN
    /\ Room
    /\ UNCHANGED <<flightVars, ledgerVars, timeVars, deliveryHistory>>
    /\ IF clientId \notin Clients
       THEN /\ last' = R(404, "Client not found")
            /\ UNCHANGED <<deliveries, deliveryStatus, deliveryNotes>>
       ELSE \E coll \in FindOneThenSave(matches, [r \in matches |-> Update(r)],
                            ClientUndeliveredCreate(clientId, staffId, reason)) :
            IF ~Valid(coll)
            THEN /\ last' = R(500, "Error updating delivery status")
                 /\ UNCHANGED <<deliveries, deliveryStatus, deliveryNotes>>
            ELSE /\ deliveries' = coll
                 /\ deliveryStatus' =
                        [deliveryStatus EXCEPT ![clientId] = "Not Delivered"]
                 /\ deliveryNotes' = [deliveryNotes EXCEPT ![clientId] = reason]
                 /\ last' = R(200, "Client marked as not delivered")
    /\ Served

\* the update of an existing document in markDailyDelivered
DailyDeliveredUpdate(r) == [r EXCEPT !.deliveryStatus = "Delivered"]

\* the update of an existing document in markDailyUndelivered; reason is no
\* path of the schema and is not stored
DailyUndeliveredUpdate(r, reason) == [r EXCEPT !.deliveryStatus = "Not Delivered"]

\* the new document of markDailyDelivered and markDailyUndelivered: it names
\* no shift
DailyCreate(staffId, clientId, date, status) ==
    [NewDelivery EXCEPT !.clientId = clientId, !.staffId = staffId,
                        !.date = LocalMidnight(IF date = NoDate
                                               THEN UtcMidnight(now) ELSE date),
                        !.deliveryStatus = status]

markDailyDelivered(staffId, clientId, date) ==
    LET matches == ExactDateFilter(staffId, clientId, date)
        R(st, m) == Response("markDailyDelivered", staffId, clientId, NoUser,
                             NoShift, NoReason, date, matches # {}, st, m)
    IN
    /\ Room
    /\ UNCHANGED <<flightVars, ledgerVars, timeVars, clientVars>>
    /\ \E coll \in FindOneThenSave(
                        matches, [r \in matches |-> DailyDeliveredUpdate(r)],
                        DailyCreate(staffId, clientId, date, "Delivered")) :
            IF ~Valid(coll)
            THEN /\ last' = R(500, "Failed to update delivery status")
                 /\ UNCHANGED deliveries
            ELSE /\ deliveries' = coll
                 /\ last' = R(200, "Delivery status updated successfully")
    /\ Served

markDailyUndelivered(staffId, clientId, reason, date) ==
    LET matches == ExactDateFilter(staffId, clientId, date)
        R(st, m) == Response("markDailyUndelivered", staffId, clientId, NoUser,
                             NoShift, reason, date, matches # {}, st, m)
        Update(r) == DailyUndeliveredUpdate(r, reason)
    IN
    /\ Room
    /\ UNCHANGED <<flightVars, ledgerVars, timeVars, clientVars>>
    /\ \E coll \in FindOneThenSave(matches, [r \in matches |-> Update(r)],
                        DailyCreate(staffId, clientId, date, "Not Delivered")) :
            IF ~Valid(coll)
            THEN /\ last' = R(500, "Failed to update delivery status")
                 /\ UNCHANGED deliveries
            ELSE /\ deliveries' = coll
                 /\ last' = R(200, "Delivery status updated successfully")
    /\ Served

\* the dates a request can name: the date of a stored document or the
\* current instant
DateInputs == {r.date : r \in deliveries} \cup {now}

NextRecorder ==
    \/ \E s \in StaffIds, c \in Recorded, sh \in Shifts \cup {NoShift} :
            markClientDailyDelivered(s, c, sh)
    \/ \E s \in StaffIds, c \in Recorded, sh \in Shifts \cup {NoShift},
          rs \in Reasons \cup {NoReason} :
            markClientDailyUndelivered(s, c, sh, rs)
    \/ \E c \in Recorded, u \in Users \cup {NoUser} : markClientDelivered(c, u)
    \/ \E c \in Recorded, u \in Users \cup {NoUser}, rs \in Reasons \cup {NoReason} :
            markClientUndelivered(c, u, rs)
    \/ \E s \in StaffIds, c \in Recorded, d \in DateInputs \cup {NoDate} :
            markDailyDelivered(s, c, d)
    \/ \E s \in StaffIds, c \in Recorded, rs \in Reasons \cup {NoReason},
          d \in DateInputs \cup {NoDate} :
            markDailyUndelivered(s, c, rs, d)

(* ---------------------------- requests in flight ----------------------- *)
\* the number of a new request in flight
FreeSlot == CHOOSE n \in 1..MaxPending : \A q \in pending : q.n # n

\* a request that has read and checked its documents and has not written
InFlight(op, staffId, clientId, shift, date, found) ==
    [op |-> op, n |-> FreeSlot, staffId |-> staffId, clientId |-> clientId,
     shift |-> shift, date |-> date, found |-> found, saved |-> "none"]

\* assignClient up to Promise.all: the two documents are read and checked
assignClientRead(staffId, clientId) ==
    LET chk == AssignCheck(staffId, clientId)
    IN
    /\ Cardinality(pending) < MaxPending
    /\ UNCHANGED <<ledgerVars, deliveries, clientVars, timeVars, served, sessions,
                   directory, report>>
    /\ IF chk[1] # 200
       THEN /\ last' = Response("assignClient", staffId, clientId, NoUser,
                                NoShift, NoReason, NoDate, FALSE, chk[1], chk[2])
            /\ UNCHANGED pending
       ELSE /\ pending' = pending \cup {InFlight("assignClient", staffId, clientId,
                                                 NoShift, NoDate, FALSE)}
            /\ UNCHANGED last

\* the request after one of its two save() calls: it answers when both are
\* done
AfterSave(q, side) ==
    IF q.saved = "none"
    THEN /\ pending' = (pending \ {q}) \cup {[q EXCEPT !.saved = side]}
         /\ UNCHANGED last
    ELSE /\ pending' = pending \ {q}
         /\ last' = Response("assignClient", q.staffId, q.clientId, NoUser,
                             NoShift, NoReason, NoDate, FALSE, 200,
                             "Assignment successful")

\* staff.save() of a request in flight
assignClientSaveStaff(q) ==
    /\ q.op = "assignClient" /\ q.saved # "staff"
    /\ assignedClients' = PushClient(assignedClients, q.staffId, q.clientId)
    /\ AfterSave(q, "staff")
    /\ UNCHANGED <<staffSet, assignedStaff, deliveries, clientVars, timeVars,
                   served, sessions,
                   directory, report>>

\* client.save() of a request in flight
assignClientSaveClient(q) ==
    /\ q.op = "assignClient" /\ q.saved # "client"
    /\ assignedStaff' = SetAssignedStaff(assignedStaff, q.clientId, q.staffId)
    /\ AfterSave(q, "client")
    /\ UNCHANGED <<staffSet, assignedClients, deliveries, clientVars, timeVars,
                   served, sessions,
                   directory, report>>

NextRace ==
    \/ \E s \in StaffIds, c \in Clients : assignClientRead(s, c)
    \/ \E q \in pending : assignClientSaveStaff(q)
    \/ \E q \in pending : assignClientSaveClient(q)

SpecRace == Init /\ [][NextRace]_vars

(* ---------------------------- Shift Session Tracker -------------------- *)
\* the positions of the StaffSession documents matching { staffId, date }
SessionFilter(staffId, date) ==
    {i \in DOMAIN sessions :
        sessions[i].staffId = staffId /\ sessions[i].date = date}

\* the document findOne and findOneAndUpdate pick: the first that matches
FirstSession(staffId, date) ==
    CHOOSE i \in SessionFilter(staffId, date) :
        \A j \in SessionFilter(staffId, date) : i <= j

\* the indexes of the StaffSession schema: the key (staffId, date) is kept
\* by the upsert alone, no unique index is declared
SessionIndex(coll) == TRUE

\* the checks of selectShift without the check of the shift
ShiftCheckStaffOnly(staffId, shift) ==
    IF ~ValidId(staffId)
    THEN <<400, "Invalid staff ID format">>
    ELSE IF staffId \notin staffSet
    THEN <<404, "Staff member not found">>
    ELSE <<200, "shift selected successfully">>

\* the checks of selectShift: the status and message of the response they
\* lead to, 200 when they all pass
ShiftCheck(staffId, shift) ==
    IF ~ValidId(staffId)
    THEN <<400, "Invalid staff ID format">>
    ELSE IF shift = NoShift \/ shift \notin validShifts
    THEN <<400, "Valid shift (AM or PM) is required">>
    ELSE IF staffId \notin staffSet
    THEN <<404, "Staff member not found">>
    ELSE <<200, "shift selected successfully">>

\* the inserts that requests in flight will make
PendingInserts == {q \in pending : q.op = "selectShift" /\ ~q.found}

\* selectShift up to the write of its upsert: the checks and the query of
\* StaffSession.findOneAndUpdate({ staffId, date: today }, ..., { upsert })
selectShift(staffId, shift) ==
    LET chk == ShiftCheck(staffId, shift)
    IN
    /\ Cardinality(pending) < MaxPending
    /\ Len(sessions) + Cardinality(PendingInserts) < MaxSessions
    /\ UNCHANGED <<ledgerVars, deliveries, clientVars, timeVars, served, sessions,
                   directory, report>>
    /\ IF chk[1] # 200
       THEN /\ last' = Response("selectShift", staffId, "", NoUser, shift,
                                NoReason, NoDate, FALSE, chk[1], chk[2])
            /\ UNCHANGED pending
       ELSE /\ pending' = pending \cup
                    {InFlight("selectShift", staffId, "", shift, today,
                              SessionFilter(staffId, today) # {})}
            /\ UNCHANGED last

\* the write of the upsert and the response: the document the query found is
\* updated, or a document is inserted when the query found none
selectShiftWrite(q) ==
    LET doc == [staffId |-> q.staffId, shift |-> q.shift, date |-> q.date]
        coll == IF q.found
                THEN [sessions EXCEPT ![FirstSession(q.staffId, q.date)] = doc]
                ELSE Append(sessions, doc)
        R(st, m) == Response("selectShift", q.staffId, "", NoUser, q.shift,
                             NoReason, q.date, q.found, st, m)
    IN
    /\ q.op = "selectShift"
    /\ pending' = pending \ {q}
    /\ UNCHANGED <<ledgerVars, deliveries, clientVars, timeVars, served,
                   directory, report>>
    /\ IF SessionIndex(coll)
       THEN /\ sessions' = coll
            /\ last' = R(200, "shift selected successfully")
       ELSE /\ last' = R(500, "Error selecting shift")
            /\ UNCHANGED sessions

getSessionByDate(staffId, date) ==
    LET sessionDate == LocalMidnight(IF date = NoDate THEN now ELSE date)
        R(sh, st, m) == Response("getSessionByDate", staffId, "", NoUser, sh,
                                 NoReason, sessionDate, TRUE, st, m)
    IN
    /\ UNCHANGED <<ledgerVars, deliveries, clientVars, timeVars, served,
                   flightVars>>
    /\ IF ~ValidId(staffId)
       THEN last' = R(NoShift, 400, "Invalid staff ID format")
       ELSE IF SessionFilter(staffId, sessionDate) = {}
       THEN last' = R(NoShift, 404, "No shift selected for this date")
       ELSE last' = R(sessions[FirstSession(staffId, sessionDate)].shift, 200, "")

\* the dates a request for a session can name: the date of a stored session
\* or the current instant
SessionDates == {sessions[i].date : i \in DOMAIN sessions} \cup {now}

\* the staff ids the session requests name
SessionStaff == {"s1", BadId}

NextSession ==
    \/ \E s \in SessionStaff, sh \in Shifts \cup {NoShift, OtherShift} :
            selectShift(s, sh)
    \/ \E q \in pending : selectShiftWrite(q)
    \/ \E s \in SessionStaff, d \in SessionDates \cup {NoDate} :
            getSessionByDate(s, d)
    \/ \E s \in SessionStaff \cap StaffIds : remove(s)
    \/ Tick

SpecSession == Init /\ [][NextSession]_vars

(* ---------------------------- failing writes --------------------------- *)
\* a catch block that answers as if the request had succeeded
Swallowed(op, staffId, clientId, shift, reason, msg, error) ==
    [Response(op, staffId, clientId, NoUser, shift, reason, NoDate, FALSE,
              200, msg) EXCEPT !.details = error]

\* the catch block of a handler:
\* res.status(500).json({ message, details: error.message })
Caught(op, staffId, clientId, shift, reason, msg, error) ==
    [Response(op, staffId, clientId, NoUser, shift, reason, NoDate, FALSE,
              500, msg) EXCEPT !.details = error]

\* the errors Promise.all([staff.save(), client.save()]) can reject with:
\* the error of a save that was not written
SaveErrors(staffSaved, clientSaved) ==
    (IF staffSaved THEN {} ELSE {"staff.save"})
        \cup (IF clientSaved THEN {} ELSE {"client.save"})

\* the error of the recorders, which await the upsert and then client.save()
RecordError(recordSaved) ==
    IF recordSaved THEN "client.save" ELSE "findOneAndUpdate"

\* assignClient when a save() of Promise.all rejects: the other save may
\* have been written
assignClientFault(staffId, clientId, staffSaved, clientSaved) ==
    /\ AssignCheck(staffId, clientId)[1] = 200
    /\ ~(staffSaved /\ clientSaved)
    /\ assignedClients' = IF staffSaved
                          THEN PushClient(assignedClients, staffId, clientId)
                          ELSE assignedClients
    /\ assignedStaff' = IF clientSaved
                        THEN SetAssignedStaff(assignedStaff, clientId, staffId)
                        ELSE assignedStaff
    /\ \E error \in SaveErrors(staffSaved, clientSaved) :
            last' = Caught("assignClient", staffId, clientId, NoShift, NoReason,
                           "Error creating assignment", error)
    /\ UNCHANGED <<flightVars, staffSet, deliveries, clientVars, timeVars, served>>

\* removeAssignment when a save() of Promise.all rejects
removeAssignmentFault(staffId, clientId, staffSaved, clientSaved) ==
    /\ staffId \in staffSet /\ clientId \in Clients
    /\ IsAssigned(staffId, clientId)
    /\ ~(staffSaved /\ clientSaved)
    /\ assignedClients' = IF staffSaved
                          THEN PullClient(assignedClients, staffId, clientId)
                          ELSE assignedClients
    /\ assignedStaff' = IF clientSaved
                        THEN ClearAssignedStaff(assignedStaff, clientId)
                        ELSE assignedStaff
    /\ \E error \in SaveErrors(staffSaved, clientSaved) :
            last' = Caught("removeAssignment", staffId, clientId, NoShift,
                           NoReason, "Error removing assignment", error)
    /\ UNCHANGED <<flightVars, staffSet, deliveries, clientVars, timeVars, served>>

\* markClientDailyDelivered when findOneAndUpdate rejects (recordSaved is
\* false) or when it is written and client.save() rejects
markClientDailyDeliveredFault(staffId, clientId, shift, recordSaved) ==
    LET matches == DailyFilter(staffId, clientId)
        Set(r) == DailyDeliveredSet(r, staffId, clientId, shift)
    IN
    /\ Room
    /\ shift # NoShift /\ staffId \in staffSet /\ clientId \in Clients
    /\ IsAssigned(staffId, clientId)
    /\ \E coll \in Upsert(matches, [r \in matches |-> Set(r)], Set(NewDelivery)) :
            deliveries' = IF recordSaved /\ UniqueIndex(coll)
                          THEN coll ELSE deliveries
    /\ last' = Caught("markClientDailyDelivered", staffId, clientId, shift,
                      NoReason, "Error updating delivery status",
                      RecordError(recordSaved))
    /\ UNCHANGED <<flightVars, ledgerVars, clientVars, timeVars>>
    /\ Served

\* markClientDailyUndelivered when findOneAndUpdate rejects or when it is
\* written and client.save() rejects
markClientDailyUndeliveredFault(staffId, clientId, shift, reason, recordSaved) ==
    LET matches == DailyFilter(staffId, clientId)
        Set(r) == DailyUndeliveredSet(r, staffId, clientId, shift, reason)
    IN
    /\ Room
    /\ shift # NoShift /\ reason # NoReason
    /\ staffId \in staffSet /\ clientId \in Clients
    /\ IsAssigned(staffId, clientId)
    /\ \E coll \in Upsert(matches, [r \in matches |-> Set(r)], Set(NewDelivery)) :
            deliveries' = IF recordSaved /\ UniqueIndex(coll)
                          THEN coll ELSE deliveries
    /\ last' = Caught("markClientDailyUndelivered", staffId, clientId, shift,
                      reason, "Error updating delivery status",
                      RecordError(recordSaved))
    /\ UNCHANGED <<flightVars, ledgerVars, clientVars, timeVars>>
    /\ Served

\* the requests of the failing-write runs: one client and one recording
\* staff member
FaultClients == {"c1"}
FaultRecorders == {"s1"}
FaultShifts == {"AM"}

NextFaults ==
    /\ Room
    /\ \/ \E s \in StaffIds, c \in FaultClients : assignClient(s, c)
       \/ \E s \in StaffIds, c \in FaultClients : removeAssignment(s, c)
       \/ \E s \in StaffIds, c \in FaultClients, ss, cs \in BOOLEAN :
                assignClientFault(s, c, ss, cs)
       \/ \E s \in StaffIds, c \in FaultClients, ss, cs \in BOOLEAN :
                removeAssignmentFault(s, c, ss, cs)
       \/ \E s \in FaultRecorders, c \in FaultClients, sh \in FaultShifts :
                markClientDailyDelivered(s, c, sh)
       \/ \E s \in FaultRecorders, c \in FaultClients, sh \in FaultShifts,
              rs \in Reasons :
                markClientDailyUndelivered(s, c, sh, rs)
       \/ \E s \in FaultRecorders, c \in FaultClients, sh \in FaultShifts,
              rec \in BOOLEAN :
                markClientDailyDeliveredFault(s, c, sh, rec)
       \/ \E s \in FaultRecorders, c \in FaultClients, sh \in FaultShifts,
              rs \in Reasons, rec \in BOOLEAN :
                markClientDailyUndeliveredFault(s, c, sh, rs, rec)

SpecFaults == Init /\ [][NextFaults]_vars

(* ---------------------------- the staff directory ---------------------- *)
\* Staff.create with isAvailable false
NewStaffUnavailable(id, user) ==
    [id |-> id, userId |-> user, shift |-> "AM", assignedClients |-> <<>>,
     isAvailable |-> FALSE, totalMilkQuantity |-> 0]

\* the document of Staff.create({ userId, name, shift: "AM", ... })
NewStaff(id, user) ==
    [id |-> id, userId |-> user, shift |-> "AM", assignedClients |-> <<>>,
     isAvailable |-> TRUE, totalMilkQuantity |-> 0]

\* the unique index of the Staff schema on userId
StaffIndex(coll) ==
    /\ \A i, j \in 1..Len(coll) : coll[i].userId = coll[j].userId => i = j
    /\ \A i \in 1..Len(coll), s \in staffSet : coll[i].userId # userId[s]

\* Staff.findOne({ userId }): the profiles of an account, the ones made by
\* an admin first
StaffOfAccount(user) ==
    [id : {s \in staffSet : userId[s] = user}]
        \cup {[id |-> directory[i].id] : i \in {j \in 1..Len(directory) :
                                                directory[j].userId = user}}

\* the checks of getByUserId up to Staff.findOne
AccountCheck(user) ==
    IF ~ValidId(user) THEN <<400, "Invalid user ID format">>
    ELSE IF user \notin Accounts THEN <<404, "User not found">>
    ELSE IF role[user] # "staff"
    THEN <<403, "User exists but is not a staff member">>
    ELSE <<200, "">>

\* getByUserId up to Staff.findOne: an existing profile is returned, a
\* missing one is about to be created
getByUserId(user) ==
    LET chk == AccountCheck(user)
        found == StaffOfAccount(user)
        R(id, ex, st, m) == Response("getByUserId", id, "", user, NoShift,
                                     NoReason, NoDate, ex, st, m)
    IN
    /\ Cardinality(pending) < MaxPending
    /\ UNCHANGED <<ledgerVars, deliveries, clientVars, timeVars, served,
                   sessions, directory, report>>
    /\ IF chk[1] # 200
       THEN /\ last' = R(NoStaff, FALSE, chk[1], chk[2])
            /\ UNCHANGED pending
       ELSE IF found # {}
       THEN /\ \E p \in found : last' = R(p.id, TRUE, 200, "")
            /\ UNCHANGED pending
       ELSE /\ pending' = pending \cup
                    {[op |-> "getByUserId", n |-> FreeSlot, userId |-> user]}
            /\ UNCHANGED last

\* Staff.create of a request that found no profile, and its answer
getByUserIdCreate(q) ==
    LET id == IF Len(directory) < Len(NewStaffIds)
              THEN NewStaffIds[Len(directory) + 1] ELSE NoStaff
        coll == Append(directory, NewStaff(id, q.userId))
        R(sid, st, m) == Response("getByUserId", sid, "", q.userId, NoShift,
                                  NoReason, NoDate, FALSE, st, m)
    IN
    /\ q.op = "getByUserId"
    /\ pending' = pending \ {q}
    /\ UNCHANGED <<ledgerVars, deliveries, clientVars, timeVars, served, sessions, report>>
    /\ IF StaffIndex(coll)
       THEN /\ directory' = coll
            /\ last' = R(id, 200, "")
       ELSE /\ last' = R(NoStaff, 500, "Failed to create staff record")
            /\ UNCHANGED directory

\* update of a profile of the directory: Staff.findByIdAndUpdate(id, { shift })
update(id, shift) ==
    LET R(st, m) == Response("update", id, "", NoUser, shift, NoReason, NoDate,
                             FALSE, st, m)
        hit == {i \in 1..Len(directory) : directory[i].id = id}
    IN
    /\ UNCHANGED <<ledgerVars, deliveries, clientVars, timeVars, served,
                   sessions, pending, report>>
    /\ IF hit = {}
       THEN /\ last' = R(404, "Staff member not found")
            /\ UNCHANGED directory
       ELSE /\ directory' = [i \in 1..Len(directory) |->
                                IF i \in hit
                                THEN [directory[i] EXCEPT !.shift = shift]
                                ELSE directory[i]]
            /\ last' = R(200, "")

NextDirectory ==
    \/ \E u \in UserInputs : getByUserId(u)
    \/ \E q \in pending : getByUserIdCreate(q)
    \/ \E id \in Range(NewStaffIds), sh \in Shifts : update(id, sh)
    \/ \E s \in {"s1"}, c \in FaultClients : assignClient(s, c)

SpecDirectory == Init /\ [][NextDirectory]_vars

(* ---------------------------- Aggregation Engine ----------------------- *)
\* the sum of the values of a function over a finite set of its arguments
RECURSIVE Sum(_, _)
Sum(f, S) ==
    IF S = {} THEN 0
    ELSE LET x == CHOOSE y \in S : TRUE IN f[x] + Sum(f, S \ {x})

RECURSIVE GCD(_, _)
GCD(a, b) == IF b = 0 THEN a ELSE GCD(b, a % b)

\* a rate that is 100 whenever there are records
RateAlwaysFull(delivered, total) ==
    IF total = 0 THEN <<0, 1>> ELSE <<100, 1>>

\* total > 0 ? (delivered / total) * 100 : 0, as a fraction in lowest terms
Rate(delivered, total) ==
    IF total = 0 THEN <<0, 1>>
    ELSE LET g == GCD(100 * delivered, total)
         IN <<(100 * delivered) \div g, total \div g>>

\* { date: { $gte: startDate, $lte: endDate } }
InRange(startDate, endDate) ==
    {r \in deliveries : r.date >= startDate /\ r.date <= endDate}

\* the $match of the totals without the test of the status
AllOf(coll) == coll

\* { deliveryStatus: "Delivered" }
Delivered(coll) == {r \in coll : r.deliveryStatus = "Delivered"}

\* $group { _id: null, totalQuantity: $sum quantity, totalRevenue: $sum
\* price } and the choice of { quantity: 0, revenue: 0 } for no group
Totals(matched) ==
    LET result == IF matched = {} THEN <<>>
                  ELSE <<[totalQuantity |-> Sum([r \in matched |-> r.quantity], matched),
                          totalRevenue |-> Sum([r \in matched |-> r.price], matched)]>>
    IN IF Len(result) > 0
       THEN [quantity |-> result[1].totalQuantity,
             revenue |-> result[1].totalRevenue]
       ELSE [quantity |-> 0, revenue |-> 0]

getTodaysDeliveryTotal(startDate, endDate) ==
    Totals(Delivered(InRange(startDate, endDate)))

\* the first instant of the month (UTC) of the local year and month of a date
FirstDay(date) == ((date + tz) \div MonthLen) * MonthLen
\* the last instant of that month: T23:59:59.999Z of its last day
LastDay(date) == FirstDay(date) + MonthLen - 1

getMonthlyDeliveryTotal(date) ==
    Totals(Delivered(InRange(FirstDay(date), LastDay(date))))

getDeliverySuccessRate(startDate, endDate) ==
    LET totalDeliveries == Cardinality(InRange(startDate, endDate))
        deliveredCount == Cardinality(Delivered(InRange(startDate, endDate)))
    IN [total |-> totalDeliveries, delivered |-> deliveredCount,
        successRate |-> Rate(deliveredCount, totalDeliveries)]

\* a count of the records of a group whatever their status
CountAll(group, status) == Cardinality(group)

\* $cond: [{ $eq: ["$deliveryStatus", status] }, 1, 0] summed over a group
CountOf(group, status) ==
    Cardinality({r \in group : r.deliveryStatus = status})

\* the name a staff id had when its profile existed
StaffNameOnFile(id) == IF id \in StaffIds THEN name[id] ELSE "Unknown Staff"

\* $lookup into staffs, $unwind and $ifNull: ["$staffInfo.name", ...]
StaffNameOf(id) == IF id \in staffSet THEN name[id] ELSE "Unknown Staff"

\* the groups of getStaffPerformance, one for each staffId of the range
getStaffPerformance(startDate, endDate) ==
    LET matched == InRange(startDate, endDate)
        Group(id) == {r \in matched : r.staffId = id}
    IN {[id |-> id,
         staffName |-> StaffNameOf(id),
         deliveredCount |-> CountOf(Group(id), "Delivered"),
         notDeliveredCount |-> CountOf(Group(id), "Not Delivered"),
         totalQuantity |-> Sum([r \in Group(id) |-> r.quantity], Group(id)),
         totalRevenue |-> Sum([r \in Group(id) |-> r.price], Group(id)),
         successRate |-> Rate(CountOf(Group(id), "Delivered"),
                              CountOf(Group(id), "Delivered")
                                + CountOf(Group(id), "Not Delivered"))]
        : id \in {r.staffId : r \in matched}}

\* the groups of getShiftAnalytics, one for each shift of the range
getShiftAnalytics(startDate, endDate) ==
    LET matched == InRange(startDate, endDate)
        Group(sh) == {r \in matched : r.shift = sh}
    IN {[shift |-> sh,
         deliveryCount |-> Cardinality(Group(sh)),
         deliveredCount |-> CountOf(Group(sh), "Delivered"),
         totalQuantity |-> Sum([r \in Group(sh) |-> r.quantity], Group(sh)),
         totalRevenue |-> Sum([r \in Group(sh) |-> r.price], Group(sh)),
         successRate |-> Rate(CountOf(Group(sh), "Delivered"),
                              Cardinality(Group(sh)))]
        : sh \in {r.shift : r \in matched}}

\* the names of the clients on file
clientName == [c \in Clients |-> IF c = "c1" THEN "Meera" ELSE "Nikhil"]

\* the row of the snapshot made from a stored record: $lookup into clients
\* and staffs, $unwind, and the names or "Unknown"
Row(r) == [clientName |-> IF r.clientId \in Clients
                          THEN clientName[r.clientId] ELSE "Unknown",
           staff |-> IF r.staffId \in staffSet
                     THEN name[r.staffId] ELSE "Unknown",
           shift |-> r.shift, quantity |-> r.quantity, price |-> r.price,
           status |-> r.deliveryStatus]

\* matchCriteria: the range, and the shift when the filter is AM or PM
SnapshotMatch(startDate, endDate, shiftFilter) ==
    {r \in InRange(startDate, endDate) :
        shiftFilter \in {"AM", "PM"} => r.shift = shiftFilter}

\* $sort { date: -1 } then $group by clientId with $first: the documents
\* that can come first for a client are those of its greatest date, and the
\* order among documents of equal date is not determined by the sort
FirstOf(matched, clientId) ==
    {r \in matched :
        /\ r.clientId = clientId
        /\ \A q \in matched : q.clientId = clientId => q.date <= r.date}

\* the results getTodaysDeliveryRecords can return: one row for each
\* client of the matching records
getTodaysDeliveryRecords(startDate, endDate, shiftFilter) ==
    LET matched == SnapshotMatch(startDate, endDate, shiftFilter)
        ids == {r.clientId : r \in matched}
    IN {{Row(first[c]) : c \in ids} :
            first \in {f \in [ids -> matched] :
                          \A c \in ids : f[c] \in FirstOf(matched, c)}}

\* getDashboardData: the day of the query date in UTC, from T00:00:00.000Z
\* to T23:59:59.999Z, and the aggregates over it
getDashboardData(date, shiftFilter) ==
    LET queryDate == IF date = NoDate THEN now ELSE date
        startDate == UtcMidnight(queryDate)
        endDate == UtcMidnight(queryDate) + DayLen - 1
    IN
    \E deliveryRecords \in
            getTodaysDeliveryRecords(startDate, endDate, shiftFilter) :
    /\ report' = [op |-> "getDashboardData", date |-> queryDate,
                  startDate |-> startDate, endDate |-> endDate,
                  shiftFilter |-> shiftFilter,
                  deliveryRecords |-> deliveryRecords,
                  today |-> getTodaysDeliveryTotal(startDate, endDate),
                  monthly |-> getMonthlyDeliveryTotal(queryDate),
                  deliverySuccessRate |->
                        getDeliverySuccessRate(startDate, endDate),
                  staffPerformance |-> getStaffPerformance(startDate, endDate),
                  shiftAnalytics |-> getShiftAnalytics(startDate, endDate)]
    /\ UNCHANGED <<ledgerVars, deliveries, clientVars, timeVars, served,
                   sessions, pending, directory, last>>

\* the recordings of the dashboard runs: each staff member records for a
\* client of their own in the shift of the client
Rounds == {<<"s1", "c1", "AM">>, <<"s2", "c2", "PM">>}

\* the staff member whose profile is deleted in the dashboard runs
Leavers == {"s2"}

\* the requests of the dashboard runs: the daily recorders, the change of
\* a stored record to Not Delivered, the deletion of staff and the dashboard
NextDashboard ==
    \/ /\ Room
       /\ \/ \E p \in Rounds : assignClient(p[1], p[2])
          \/ \E p \in Rounds : markClientDailyDelivered(p[1], p[2], p[3])
          \/ \E p \in Rounds, rs \in Reasons :
                markClientDailyUndelivered(p[1], p[2], p[3], rs)
          \/ \E p \in Rounds, rs \in Reasons, d \in DateInputs :
                markDailyUndelivered(p[1], p[2], rs, d)
          \/ Tick
    \/ \E s \in Leavers : remove(s)
    \/ \E d \in DateInputs \cup {NoDate} : getDashboardData(d, NoShift)

SpecDashboard == Init /\ [][NextDashboard]_vars

\* the shift filters of the snapshot runs: a shift, none or an unknown one
ShiftFilters == Shifts \cup {NoShift, OtherShift}

\* the requests of the snapshot runs: the client passes from one staff
\* member to the other, each records for it in a shift, and the dashboard
\* is asked for the day with a shift filter
NextSnapshot ==
    \/ /\ Room
       /\ \/ \E s \in StaffIds, c \in {"c1"}, sh \in Shifts :
                markClientDailyDelivered(s, c, sh)
          \/ \E s \in StaffIds, c \in {"c1"}, sh \in Shifts,
                  rs \in Reasons :
                markClientDailyUndelivered(s, c, sh, rs)
          \/ \E s \in StaffIds, c \in {"c1"} : assignClient(s, c)
          \/ \E s \in StaffIds, c \in {"c1"} :
                removeAssignment(s, c)
          \/ Tick
    \/ \E f \in ShiftFilters : getDashboardData(NoDate, f)

SpecSnapshot == Init /\ [][NextSnapshot]_vars

(* ---------------------------- trends ----------------------------------- *)
\* the calendar of an instant in UTC: its day, the week of its year, its
\* year and the month of its year
DayOf(date) == date \div DayLen
WeekOf(date) == (DayOf(date) % (DaysPerMonth * MonthsPerYear)) \div DaysPerWeek
YearOf(date) == date \div (MonthLen * MonthsPerYear)
MonthOf(date) == ((date \div MonthLen) % MonthsPerYear) + 1

\* the periods a request for trends can name; any other is taken as daily
Periods == {"daily", "weekly", "monthly"}

\* the _id of the $group of a record: $dateToString "%Y-%m-%d", $week or
\* { year: $year, month: $month }
GroupBy(period, date) ==
    IF period = "weekly" THEN <<WeekOf(date)>>
    ELSE IF period = "monthly" THEN <<YearOf(date), MonthOf(date)>>
    ELSE <<DayOf(date)>>

\* the order of $sort { period: 1 } on two keys of the same period
KeyBefore(a, b) ==
    \/ a[1] < b[1]
    \/ Len(a) = 2 /\ a[1] = b[1] /\ a[2] < b[2]

\* the keys of a set in ascending order
RECURSIVE Sorted(_)
Sorted(keys) ==
    IF keys = {} THEN <<>>
    ELSE LET k == CHOOSE x \in keys : \A y \in keys \ {x} : KeyBefore(x, y)
         IN <<k>> \o Sorted(keys \ {k})

\* the status the $cond of successfulDeliveries tests: "delivered"
SuccessfulStatus == "delivered"

\* the $group and $project of getDeliveryTrends for one key
Bucket(period, matched, key) ==
    LET group == {r \in matched : GroupBy(period, r.date) = key}
        totalDeliveries == Cardinality(group)
        successfulDeliveries == CountOf(group, SuccessfulStatus)
    IN [period |-> key,
        totalDeliveries |-> totalDeliveries,
        successfulDeliveries |-> successfulDeliveries,
        successRate |-> Rate(successfulDeliveries, totalDeliveries),
        totalQuantity |-> Sum([r \in group |-> r.quantity], group),
        totalRevenue |-> Sum([r \in group |-> r.price], group)]

\* getDeliveryTrends: the range from local midnight of the start (30 days
\* back by default) to the end of the local day of the end (now by default)
getDeliveryTrends(period, startDate, endDate) ==
    LET start == LocalMidnight(IF startDate = NoDate
                               THEN now - 30 * DayLen ELSE startDate)
        end == LocalMidnight(IF endDate = NoDate THEN now ELSE endDate)
                    + DayLen - 1
        matched == InRange(start, end)
        keys == Sorted({GroupBy(period, r.date) : r \in matched})
    IN
    /\ report' = [op |-> "getDeliveryTrends", period |-> period,
                  start |-> start, end |-> end,
                  trends |-> [i \in 1..Len(keys) |->
                                    Bucket(period, matched, keys[i])]]
    /\ UNCHANGED <<ledgerVars, deliveries, clientVars, timeVars, served,
                   sessions, pending, directory, last>>

\* the requests of the trend runs: the daily recorders and the trends
NextTrends ==
    \/ /\ Room
       /\ \/ \E p \in Rounds : assignClient(p[1], p[2])
          \/ \E p \in Rounds : markClientDailyDelivered(p[1], p[2], p[3])
          \/ \E p \in Rounds, rs \in Reasons :
                markClientDailyUndelivered(p[1], p[2], p[3], rs)
          \/ Tick
    \/ \E period \in Periods, startDate, endDate \in DateInputs \cup {NoDate} :
            getDeliveryTrends(period, startDate, endDate)

SpecTrends == Init /\ [][NextTrends]_vars

(* ---------------------------- non-delivery reasons --------------------- *)
\* the status the $match of getNonDeliveryReasons tests: "not_delivered"
NonDeliveryStatus == "not_delivered"

\* $match { date, deliveryStatus: "not_delivered", notes: { $exists: true,
\* $ne: "" } }
NonDeliveries(start, end) ==
    {r \in InRange(start, end) :
        r.deliveryStatus = NonDeliveryStatus /\ r.notes # NoReason}

\* $group { _id: "$notes", count: { $sum: 1 } } and $project
ReasonGroups(matched) ==
    {[reason |-> n, count |-> Cardinality({r \in matched : r.notes = n})]
        : n \in {r.notes : r \in matched}}

\* $sort { count: -1 }: the orders of the groups with the counts descending,
\* groups of equal count in any order
SortedByCount(groups) ==
    {seq \in [1..Cardinality(groups) -> groups] :
        /\ \A i, j \in DOMAIN seq : seq[i] = seq[j] => i = j
        /\ \A i, j \in DOMAIN seq : i < j => seq[i].count >= seq[j].count}

\* getNonDeliveryReasons: the range from local midnight of the start (30
\* days back by default) to the end of the local day of the end
getNonDeliveryReasons(startDate, endDate) ==
    LET start == LocalMidnight(IF startDate = NoDate
                               THEN now - 30 * DayLen ELSE startDate)
        end == LocalMidnight(IF endDate = NoDate THEN now ELSE endDate)
                    + DayLen - 1
    IN
    /\ \E seq \in SortedByCount(ReasonGroups(NonDeliveries(start, end))) :
            report' = [op |-> "getNonDeliveryReasons", start |-> start,
                       end |-> end, nonDeliveryReasons |-> seq]
    /\ UNCHANGED <<ledgerVars, deliveries, clientVars, timeVars, served,
                   sessions, pending, directory, last>>

\* the requests of the summary runs: the daily recorders and the summary of
\* the reasons
NextSummary ==
    \/ /\ Room
       /\ \/ \E p \in Rounds : assignClient(p[1], p[2])
          \/ \E p \in Rounds : markClientDailyDelivered(p[1], p[2], p[3])
          \/ \E p \in Rounds, rs \in Reasons :
                markClientDailyUndelivered(p[1], p[2], p[3], rs)
          \/ Tick
    \/ \E startDate, endDate \in DateInputs \cup {NoDate} :
            getNonDeliveryReasons(startDate, endDate)

SpecSummary == Init /\ [][NextSummary]_vars

(* ---------------------------- interleaved recordings ------------------- *)
\* the checks of the daily recorders before their writes: the status and
\* message of the response they lead to, 200 when they all pass
DailyCheck(op, staffId, clientId, shift, reason) ==
    IF shift = NoShift
    THEN <<400, "Shift is required">>
    ELSE IF op = "markClientDailyUndelivered" /\ ReasonMissing(reason)
    THEN <<400, "Reason is required for non-delivery">>
    ELSE IF staffId \notin staffSet
    THEN <<404, "Staff member not found">>
    ELSE IF clientId \notin Clients
    THEN <<404, "Client not found">>
    ELSE IF ~IsAssigned(staffId, clientId)
    THEN <<400, "This client is not assigned to this staff member">>
    ELSE <<200, "">>

\* the status a daily recorder writes
StatusOf(op) ==
    IF op = "markClientDailyDelivered" THEN "Delivered" ELSE "Not Delivered"

\* a daily recorder that has written its record and has not saved the client
Recording(op, staffId, clientId, shift, reason) ==
    [op |-> op, n |-> FreeSlot, staffId |-> staffId, clientId |-> clientId,
     shift |-> shift, date |-> today, reason |-> reason]

\* a daily recorder up to its await of findOneAndUpdate: the checks and the
\* upsert of the record
markClientDailyUpsert(op, staffId, clientId, shift, reason) ==
    LET chk == DailyCheck(op, staffId, clientId, shift, reason)
        matches == DailyFilter(staffId, clientId)
        R(st, m) == Response(op, staffId, clientId, NoUser, shift, reason,
                             NoDate, KeyFilter(clientId, shift) # {}, st, m)
        Set(r) == IF op = "markClientDailyDelivered"
                  THEN DailyDeliveredSet(r, staffId, clientId, shift)
                  ELSE DailyUndeliveredSet(r, staffId, clientId, shift, reason)
    IN
    /\ Cardinality(pending) < MaxPending
    /\ served + Cardinality(pending) < MaxServed
    /\ UNCHANGED <<ledgerVars, clientVars, timeVars, served, sessions,
                   directory, report>>
    /\ IF chk[1] # 200
       THEN /\ last' = R(chk[1], chk[2])
            /\ UNCHANGED <<deliveries, pending>>
       ELSE \E coll \in Upsert(matches, [r \in matches |-> Set(r)],
                                   Set(NewDelivery)) :
            IF ~UniqueIndex(coll)
            THEN /\ last' = R(500, "E11000 duplicate key error")
                 /\ UNCHANGED <<deliveries, pending>>
            ELSE /\ deliveries' = coll
                 /\ pending' = pending \cup
                        {Recording(op, staffId, clientId, shift, reason)}
                 /\ UNCHANGED last

\* the rest of a daily recorder: the status, the notes and the history of
\* the client are set on the document read before the upsert, client.save()
\* writes them, and the request is answered
markClientDailySave(q) ==
    LET status == StatusOf(q.op)
    IN
    /\ q.op \in {"markClientDailyDelivered", "markClientDailyUndelivered"}
    /\ pending' = pending \ {q}
    /\ UNCHANGED <<ledgerVars, deliveries, timeVars, sessions, directory,
                   report>>
    /\ deliveryStatus' = [deliveryStatus EXCEPT ![q.clientId] = status]
    /\ deliveryNotes' = IF status = "Delivered" THEN deliveryNotes
                        ELSE [deliveryNotes EXCEPT ![q.clientId] = q.reason]
    /\ deliveryHistory' =
            [deliveryHistory EXCEPT ![q.clientId] =
                Append(@, [date |-> q.date, status |-> status,
                           quantity |-> IF status = "Delivered"
                                        THEN quantity[q.clientId] ELSE 0,
                           reason |-> IF status = "Delivered"
                                      THEN NoReason ELSE q.reason])]
    /\ last' = Response(q.op, q.staffId, q.clientId, NoUser, q.shift, q.reason,
                        q.date, TRUE, 200,
                        IF status = "Delivered"
                        THEN "Delivery marked as completed"
                        ELSE "Client marked as not delivered")
    /\ Served

\* the requests of the interleaved runs: the client is assigned, and the
\* two daily recorders run for one key, each in its two steps
NextMirror ==
    \/ \E p \in {<<"s1", "c1", "AM">>} : assignClient(p[1], p[2])
    \/ \E p \in {<<"s1", "c1", "AM">>} :
            markClientDailyUpsert("markClientDailyDelivered",
                                  p[1], p[2], p[3], NoReason)
    \/ \E p \in {<<"s1", "c1", "AM">>}, rs \in Reasons :
            markClientDailyUpsert("markClientDailyUndelivered",
                                  p[1], p[2], p[3], rs)
    \/ \E q \in pending : markClientDailySave(q)
    \/ Tick

SpecMirror == Init /\ [][NextMirror]_vars

(* ---------------------------- client list ------------------------------ *)
\* getAssignedClients: the clients of staff.assignedClients in the order of
\* their names, those of the shift of today's session when there is one and
\* includeAll is not "true"
getAssignedClients(staffId, includeAll) ==
    LET R(st, m, list) == [op |-> "getAssignedClients", staffId |-> staffId,
                           includeAll |-> includeAll, status |-> st,
                           message |-> m, clients |-> list]
        staffSession == SessionFilter(staffId, today)
    IN
    /\ UNCHANGED <<ledgerVars, deliveries, clientVars, timeVars, served,
                   sessions, pending, directory, last>>
    /\ IF ~ValidId(staffId)
       THEN report' = R(400, "Invalid staff ID format", <<>>)
       ELSE IF staffId \notin staffSet
       THEN report' = R(404, "Staff member not found", <<>>)
       ELSE IF Len(assignedClients[staffId]) = 0
       THEN report' = R(200, "", <<>>)
       ELSE IF ~includeAll /\ staffSession # {}
       THEN report' = R(200, "",
                        FilteredClientIds(assignedClients[staffId],
                            sessions[FirstSession(staffId, today)].shift))
       ELSE report' = R(200, "", AllClientIds(assignedClients[staffId], NoShift))

\* the requests of the client list runs: clients are assigned to the staff
\* member, who selects a shift and asks for the list
NextGate ==
    \/ \E s \in {"s1"}, c \in Clients : assignClient(s, c)
    \/ \E s \in {"s1"}, sh \in Shifts : selectShift(s, sh)
    \/ \E q \in pending : selectShiftWrite(q)
    \/ \E s \in {"s1"}, includeAll \in BOOLEAN :
            getAssignedClients(s, includeAll)
    \/ Tick

SpecGate == Init /\ [][NextGate]_vars

(* ---------------------------- daily list ------------------------------- *)
\* getDailyDeliveries: the records of the staffId from the local midnight
\* of the date to the end of that day; a request without a date is answered
\* with 400
getDailyDeliveries(staffId, date) ==
    LET queryDate == LocalMidnight(date)
        endDate == queryDate + DayLen - 1
    IN
    /\ report' = IF date = NoDate
                 THEN [op |-> "getDailyDeliveries", staffId |-> staffId,
                       date |-> date, status |-> 400,
                       message |-> "Date parameter is required",
                       deliveries |-> {}]
                 ELSE [op |-> "getDailyDeliveries", staffId |-> staffId,
                       date |-> date, status |-> 200, message |-> "",
                       deliveries |-> {r \in InRange(queryDate, endDate) :
                                          r.staffId = staffId}]
    /\ UNCHANGED <<ledgerVars, deliveries, clientVars, timeVars, served,
                   sessions, pending, directory, last>>

\* the requests of the daily list runs: the recorders of both kinds and
\* the list of a staff member for a day
NextDaily ==
    \/ /\ Room
       /\ \/ \E p \in Rounds : assignClient(p[1], p[2])
          \/ \E p \in Rounds : markClientDailyDelivered(p[1], p[2], p[3])
          \/ \E p \in Rounds, rs \in Reasons :
                markClientDailyUndelivered(p[1], p[2], p[3], rs)
          \/ \E p \in Rounds, u \in {"u1"} : markClientDelivered(p[2], u)
          \/ \E p \in Rounds, u \in {"u1"}, rs \in Reasons :
                markClientUndelivered(p[2], u, rs)
          \/ Tick
    \/ \E s \in StaffIds, d \in DateInputs \cup {NoDate} :
            getDailyDeliveries(s, d)

SpecDaily == Init /\ [][NextDaily]_vars

\* the requests that record a non-delivery
NextReasons ==
    /\ Room
    /\ \/ \E s \in StaffIds, c \in Recorded : assignClient(s, c)
       \/ \E s \in StaffIds, c \in Recorded, sh \in Shifts \cup {NoShift},
              rs \in Reasons \cup {NoReason} :
                markClientDailyUndelivered(s, c, sh, rs)
       \/ \E c \in Recorded, u \in Users \cup {NoUser},
              rs \in Reasons \cup {NoReason} :
                markClientUndelivered(c, u, rs)
       \/ \E s \in StaffIds, c \in Recorded, rs \in Reasons \cup {NoReason},
              d \in DateInputs \cup {NoDate} :
                markDailyUndelivered(s, c, rs, d)
       \/ Tick

SpecReasons == Init /\ [][NextReasons]_vars

NextLedger ==
    \/ \E s \in StaffInputs, c \in ClientInputs : assignClient(s, c)
    \/ \E s \in StaffInputs, c \in ClientInputs : removeAssignment(s, c)
    \/ \E s \in StaffInputs, sh \in Shifts \cup {NoShift} :
            updateAssignedClients(s, sh)
    \/ \E s \in StaffIds : remove(s)

SpecLedger == Init /\ [][NextLedger]_vars

Next ==
    /\ Room
    /\ \/ \E s \in StaffIds, c \in Recorded : assignClient(s, c)
       \/ \E s \in StaffIds, c \in Recorded : removeAssignment(s, c)
       \/ NextRecorder
       \/ Tick

Spec == Init /\ [][Next]_vars

(* ======================================================================= *)
(* The claims                                                              *)
(* ======================================================================= *)
DailyDeliveredOp == "markClientDailyDelivered"
DailyUndeliveredOp == "markClientDailyUndelivered"

\* the step is a recording request served with success by one of ops
ServedBy(ops) == served' = served + 1 /\ last'.op \in ops

\* C1: for every client c, c has an assigned-staff back-reference if and only
\* if some staff profile's assignment set contains c, in every state reached
\* by assign, unassign, reconcileByShift and staff deletion.
C1_BackRefIffAssigned ==
    \A c \in Clients :
        (assignedStaff[c] # NoStaff)
            <=> (\E s \in staffSet : c \in Range(assignedClients[s]))

\* C2: at most one DeliveryRecord exists for each (client, day, shift), and a
\* recordDelivered call for a key that has a record leaves the number of
\* documents as it was: the record is updated in place and the count for the
\* key stays 1.
C2_OneRecordPerKey ==
    [][ /\ \A r1, r2 \in deliveries' :
              (r1.clientId = r2.clientId /\ r1.date = r2.date
               /\ r1.shift = r2.shift) => r1 = r2
        /\ ServedBy({DailyDeliveredOp}) =>
              /\ Cardinality({r \in deliveries' :
                                r.clientId = last'.clientId /\ r.date = today
                                /\ r.shift = last'.shift}) = 1
              /\ last'.existed => Cardinality(deliveries') = Cardinality(deliveries)
        /\ ServedBy({"markClientDelivered"}) =>
              /\ Cardinality({r \in deliveries' :
                                r.clientId = last'.clientId /\ r.date = today}) >= 1
              /\ last'.existed => Cardinality(deliveries') = Cardinality(deliveries)
      ]_vars

\* C2 witness: a second recordDelivered call for the key of an existing
\* record was served and the collection still holds one document.
C2_Witness ==
    /\ last.op = DailyDeliveredOp /\ last.status = 200 /\ last.existed
    /\ served = 2
    /\ Cardinality(deliveries) = 1
    /\ \A r \in deliveries : r.shift = last.shift /\ r.deliveryStatus = "Delivered"

\* C3: a recordDelivered or recordNotDelivered call for key (c, d, s) leaves
\* an existing record of the same client and day with the other shift
\* unchanged.
C3_OtherShiftUnchanged ==
    [][ ServedBy({DailyDeliveredOp, DailyUndeliveredOp}) =>
            \A r \in deliveries :
                (r.clientId = last'.clientId /\ r.date = today
                 /\ r.shift # last'.shift) => r \in deliveries'
      ]_vars

\* C4: a recordDelivered or recordNotDelivered call that meets its
\* preconditions never ends in a duplicate-key failure.
C4_NoDuplicateKeyFailure ==
    ~(last.op \in {DailyDeliveredOp, DailyUndeliveredOp}
      /\ last.msg = "E11000 duplicate key error")

\* C5: after a successful recordDelivered the record of the key has status
\* Delivered, the client's quantity, price = quantity * price per unit, and
\* the id of the acting staff profile as its staff reference.
C5_DeliveredRecord ==
    [][ ServedBy({DailyDeliveredOp, "markClientDelivered"}) =>
            \E r \in deliveries' :
                /\ r.clientId = last'.clientId
                /\ r.date = today
                /\ last'.op = DailyDeliveredOp => r.shift = last'.shift
                /\ r.deliveryStatus = "Delivered"
                /\ r.quantity = quantity[last'.clientId]
                /\ r.price = quantity[last'.clientId] * pricePerLitre[last'.clientId]
                /\ r.staffId = IF last'.op = DailyDeliveredOp
                               THEN last'.staffId
                               ELSE IF \E s \in staffSet : userId[s] = last'.user
                                    THEN CHOOSE s \in staffSet : userId[s] = last'.user
                                    ELSE NoStaff
      ]_vars

C7_StatusQuantityPrice ==
    \A r \in deliveries :
        /\ r.deliveryStatus = "Not Delivered" => r.quantity = 0 /\ r.price = 0
        /\ r.deliveryStatus = "Delivered" =>
                r.price = r.quantity * pricePerLitre[r.clientId]

\* C8: every successful recordDelivered or recordNotDelivered call appends
\* exactly one entry to the client's history and leaves the earlier entries
\* as they were.
C8_HistoryGrowsByOne ==
    [][ ServedBy({DailyDeliveredOp, DailyUndeliveredOp, "markClientDelivered",
                  "markClientUndelivered"}) =>
            /\ Len(deliveryHistory'[last'.clientId])
                    = Len(deliveryHistory[last'.clientId]) + 1
            /\ SubSeq(deliveryHistory'[last'.clientId], 1,
                      Len(deliveryHistory[last'.clientId]))
                    = deliveryHistory[last'.clientId]
      ]_vars

\* C9: after each successful recordDelivered the client's delivery-status is
\* "Delivered"; after each successful recordNotDelivered with reason r it is
\* "Not Delivered" and the client's delivery-notes is r.
C9_ClientMirror ==
    [][ /\ ServedBy({DailyDeliveredOp, "markClientDelivered", "markDailyDelivered"})
            => deliveryStatus'[last'.clientId] = "Delivered"
        /\ ServedBy({DailyUndeliveredOp, "markClientUndelivered",
                     "markDailyUndelivered"})
            => /\ deliveryStatus'[last'.clientId] = "Not Delivered"
               /\ deliveryNotes'[last'.clientId] = last'.reason
      ]_vars

\* C10: in the assignment-aware path a recordDelivered or recordNotDelivered
\* call for a client that is not in the acting staff's assignment set fails
\* with "This client is not assigned to this staff member" and leaves the
\* DeliveryRecord set and the client's status, notes and history unchanged.
C10_NotAssignedRejected ==
    [][ last'.op \in {DailyDeliveredOp, DailyUndeliveredOp} =>
        \A s \in staffSet, c \in Clients, sh \in Shifts, rs \in Reasons :
            ( /\ c \notin Range(assignedClients[s])
              /\ \/ /\ last'.op = DailyDeliveredOp
                    /\ markClientDailyDelivered(s, c, sh)
                 \/ /\ last'.op = DailyUndeliveredOp
                    /\ markClientDailyUndelivered(s, c, sh, rs) )
            => /\ last'.status = 400
               /\ last'.msg = "This client is not assigned to this staff member"
               /\ UNCHANGED <<deliveries, deliveryStatus, deliveryNotes,
                              deliveryHistory>>
      ]_vars

\* C10 witness: a recording call for a client assigned to somebody else was
\* rejected while the collection held a record.
C10_Witness ==
    /\ last.op \in {DailyDeliveredOp, DailyUndeliveredOp}
    /\ last.status = 400
    /\ last.msg = "This client is not assigned to this staff member"
    /\ assignedStaff["c1"] # NoStaff
    /\ deliveries # {}

(* ---------------------------- Assignment Ledger ------------------------ *)
NotAssignedMsg == "This client is not assigned to this staff member"

\* C12: assign(staffId, clientId) fails with NotFound (404) when an id does
\* not resolve, with Conflict (400) when the client is in the set of that
\* staff or has the back-reference of a different staff, leaves the ledger
\* unchanged in each of these cases, and succeeds in every other case.
C12_AssignOutcome ==
    [][ \A s \in StaffIds, c \in ClientIds :
            assignClient(s, c) =>
                IF s \notin staffSet \/ c \notin Clients
                THEN last'.status = 404 /\ UNCHANGED ledgerVars
                ELSE IF IsAssigned(s, c) \/ assignedStaff[c] \notin {NoStaff, s}
                THEN last'.status = 400 /\ UNCHANGED ledgerVars
                ELSE last'.status = 200
      ]_vars

\* C13: in every state and for every (staff, client) on which assign
\* succeeds, the writes of assign followed by the writes of unassign on the
\* same pair (which passes the check of unassign) give back the assignment
\* set of the staff and the back-reference of the client as they were.
C13_AssignThenUnassign ==
    \A s \in staffSet, c \in Clients :
        AssignCheck(s, c)[1] = 200 =>
            LET ac1 == PushClient(assignedClients, s, c)
                as1 == SetAssignedStaff(assignedStaff, c, s)
            IN /\ c \in Range(ac1[s])
               /\ PullClient(ac1, s, c) = assignedClients
               /\ ClearAssignedStaff(as1, c) = assignedStaff

\* C13 witness: an assign was undone by unassign for a staff that keeps
\* another client, and the pair can be assigned again.
C13_Witness ==
    /\ last.op = "removeAssignment" /\ last.status = 200
    /\ last.staffId \in staffSet
    /\ assignedClients[last.staffId] # <<>>
    /\ AssignCheck(last.staffId, last.clientId)[1] = 200

\* C14: unassign(staffId, clientId) on a client that is not in the set of the
\* staff fails with Conflict (400) and changes nothing; on success the client
\* is removed from that set, its back-reference is cleared, and every other
\* set and every other back-reference stay as they were.
C14_Unassign ==
    [][ \A s \in staffSet, c \in Clients :
            removeAssignment(s, c) =>
                IF ~IsAssigned(s, c)
                THEN /\ last'.status = 400 /\ last'.msg = NotAssignedMsg
                     /\ UNCHANGED ledgerVars
                ELSE /\ last'.status = 200
                     /\ Range(assignedClients'[s]) = Range(assignedClients[s]) \ {c}
                     /\ assignedStaff'[c] = NoStaff
                     /\ \A t \in staffSet \ {s} :
                            assignedClients'[t] = assignedClients[t]
                     /\ \A d \in Clients \ {c} :
                            assignedStaff'[d] = assignedStaff[d]
      ]_vars

\* C14 witness: an unassign succeeded for a staff that keeps another client.
C14_Witness ==
    /\ last.op = "removeAssignment" /\ last.status = 200
    /\ last.staffId \in staffSet
    /\ \E d \in Clients \ {last.clientId} :
            /\ d \in Range(assignedClients[last.staffId])
            /\ assignedStaff[d] = last.staffId
    /\ assignedStaff[last.clientId] = NoStaff

\* C15: reconcileByShift(staffId, shift) sets the set of the staff to the
\* members of its previous set whose shift designation is shift, returns the
\* size of the resulting set, and changes no client and no other staff's set.
C15_Reconcile ==
    [][ (last'.op = "updateAssignedClients" /\ last'.status = 200) =>
            LET s == last'.staffId IN
            /\ Range(assignedClients'[s]) =
                    {c \in Range(assignedClients[s]) : timeShift[c] = last'.shift}
            /\ last'.clientCount = Cardinality(Range(assignedClients'[s]))
            /\ last'.clientCount = Len(assignedClients'[s])
            /\ UNCHANGED <<assignedStaff, clientVars, staffSet>>
            /\ \A t \in staffSet \ {s} : assignedClients'[t] = assignedClients[t]
      ]_vars

\* C15 witness: a reconciliation kept one client of the staff and dropped
\* another.
C15_Witness ==
    /\ last.op = "updateAssignedClients" /\ last.status = 200
    /\ last.clientCount = 1
    /\ \E c \in Clients :
            /\ assignedStaff[c] = last.staffId
            /\ c \notin Range(assignedClients[last.staffId])

\* C16: a client dropped from the set of a staff by a reconciliation is back
\* in that set after a later reconcileByShift(staff, Y) with Y the shift
\* designation of the client.
C16_ReconcileRestores ==
    [][ (last'.op = "updateAssignedClients" /\ last'.status = 200) =>
            \A c \in Clients :
                (assignedStaff[c] = last'.staffId /\ timeShift[c] = last'.shift)
                    => c \in Range(assignedClients'[last'.staffId])
      ]_vars

\* the number of times client c occurs in the assignment set of staff s
Occurrences(s, c) ==
    Cardinality({i \in DOMAIN assignedClients[s] : assignedClients[s][i] = c})

\* C11: under any interleaving of assign calls every client id occurs at most
\* once over all staff assignment sets: never twice in one set and never in
\* the sets of two different staff.
C11_ClientInOneSet ==
    \A c \in Clients :
        /\ \A s \in staffSet : Occurrences(s, c) <= 1
        /\ \A s, t \in staffSet :
                (Occurrences(s, c) > 0 /\ Occurrences(t, c) > 0) => s = t

(* ---------------------------- Shift Session Tracker -------------------- *)
\* C17: after any sequence or interleaving of successful selectShift calls of
\* one staff on one day, exactly one ShiftSession exists for that (staff,
\* day) and its shift is the one of the last call to complete.
C17_OneSessionPerDay ==
    (last.op = "selectShift" /\ last.status = 200) =>
        /\ Cardinality(SessionFilter(last.staffId, last.date)) = 1
        /\ \A i \in SessionFilter(last.staffId, last.date) :
                sessions[i].shift = last.shift

\* C18: selectShift fails with NotFound (404) when the staff id does not
\* resolve and with InvalidInput (400) when the shift is missing or not among
\* the valid shifts (either of the two when both hold); in both cases no
\* ShiftSession is created or changed and no write is left to come.
C18_SelectShiftRejects ==
    [][ \A s \in StaffIds, sh \in Shifts \cup {NoShift, OtherShift} :
            selectShift(s, sh) =>
                /\ (sh = NoShift \/ sh \notin validShifts) =>
                        /\ last'.op = "selectShift" /\ last'.status = 400
                        /\ UNCHANGED <<sessions, pending>>
                /\ s \notin staffSet =>
                        /\ last'.op = "selectShift"
                        /\ last'.status = IF sh \in validShifts THEN 404 ELSE 400
                        /\ UNCHANGED <<sessions, pending>>
      ]_vars

\* C18 witness: a selectShift for a deleted staff was answered NotFound
\* while the collection holds a session of that staff.
C18_Witness ==
    /\ last.op = "selectShift" /\ last.status = 404
    /\ "s1" \notin staffSet
    /\ \E i \in DOMAIN sessions : sessions[i].staffId = "s1"

\* C19: getSession(staffId, day) returns a session stored for the key and
\* NotFound (404) when there is none, never creates or changes a session,
\* and right after a successful selectShift(staffId, X) it returns, for the
\* day of that call, a session with shift X.
C19_GetSession ==
    [][ \A s \in StaffIds, d \in SessionDates \cup {NoDate} :
            getSessionByDate(s, d) =>
                LET key == LocalMidnight(IF d = NoDate THEN now ELSE d)
                    m == SessionFilter(s, key)
                IN
                /\ UNCHANGED <<sessions, pending>>
                /\ m = {} => last'.status = 404
                /\ m # {} => /\ last'.status = 200
                             /\ \E i \in m : sessions[i].shift = last'.shift
                /\ (/\ last.op = "selectShift" /\ last.status = 200
                    /\ last.staffId = s /\ last.date = key)
                        => last'.status = 200 /\ last'.shift = last.shift
      ]_vars

(* ---------------------------- failing writes --------------------------- *)
\* C20: assign, unassign, recordDelivered and recordNotDelivered never
\* report success when one of their two writes failed: whenever one of them
\* answers 200, both of its writes are in the database.
C20_NoSuccessOnFailedWrite ==
    [][ /\ (last'.op = "assignClient" /\ last'.status = 200) =>
                /\ last'.clientId \in Range(assignedClients'[last'.staffId])
                /\ assignedStaff'[last'.clientId] = last'.staffId
        /\ (last'.op = "removeAssignment" /\ last'.status = 200) =>
                /\ last'.clientId \notin Range(assignedClients'[last'.staffId])
                /\ assignedStaff'[last'.clientId] = NoStaff
        /\ ServedBy({DailyDeliveredOp, DailyUndeliveredOp}) =>
                LET status == IF last'.op = DailyDeliveredOp
                              THEN "Delivered" ELSE "Not Delivered"
                IN
                /\ \E r \in deliveries' :
                        /\ r.clientId = last'.clientId /\ r.date = today
                        /\ r.shift = last'.shift /\ r.deliveryStatus = status
                /\ deliveryStatus'[last'.clientId] = status
                /\ Len(deliveryHistory'[last'.clientId])
                        = Len(deliveryHistory[last'.clientId]) + 1
      ]_vars

\* C20 witness: an assign whose client-side write failed was answered with
\* an error and left the client in the set of the staff without the
\* back-reference.
C20_Witness ==
    /\ last.op = "assignClient" /\ last.status = 500
    /\ \E s \in staffSet, c \in Clients :
            c \in Range(assignedClients[s]) /\ assignedStaff[c] = NoStaff

\* the answers of a handler when its writes failed and none was persisted
TotalFailures(op) ==
    IF op = "assignClient"
    THEN {Caught(op, NoStaff, "", NoShift, NoReason,
                 "Error creating assignment", e) : e \in SaveErrors(FALSE, FALSE)}
    ELSE IF op = "removeAssignment"
    THEN {Caught(op, NoStaff, "", NoShift, NoReason,
                 "Error removing assignment", e) : e \in SaveErrors(FALSE, FALSE)}
    ELSE {Caught(op, NoStaff, "", NoShift, NoReason,
                 "Error updating delivery status", RecordError(FALSE))}

\* the operations with two writes
TwoWriteOps ==
    {"assignClient", "removeAssignment", DailyDeliveredOp, DailyUndeliveredOp}

\* C21: when exactly one of the two writes of assign, unassign,
\* recordDelivered or recordNotDelivered was persisted and the other failed,
\* the answer differs from every answer of the operation when neither write
\* was persisted.
C21_PartialFailureDistinct ==
    [][ ( /\ last'.op \in TwoWriteOps /\ last'.status = 500
          /\ <<assignedClients, assignedStaff, deliveries>>'
                # <<assignedClients, assignedStaff, deliveries>> )
        => last' \notin TotalFailures(last'.op) ]_vars

(* ---------------------------- the staff directory ---------------------- *)
\* C22: resolveStaffForAccount fails with NotFound when the account does
\* not exist and with Forbidden when its role is not "staff", and creates
\* no profile then; for a staff account without a profile it creates one
\* with shift "AM", no assigned clients, isAvailable true and
\* totalMilkQuantity 0.
C22_ResolveOutcome ==
    [][ /\ \A u \in UserInputs :
            (getByUserId(u) /\ ValidId(u) /\ (u \notin Accounts \/ role[u] # "staff"))
            => /\ last'.status = IF u \in Accounts THEN 403 ELSE 404
               /\ UNCHANGED <<directory, pending, staffSet>>
        /\ \A q \in pending :
            (getByUserIdCreate(q) /\ StaffOfAccount(q.userId) = {})
            => /\ Len(directory') = Len(directory) + 1
               /\ \A i \in 1..Len(directory) : directory'[i] = directory[i]
               /\ LET p == directory'[Len(directory')]
                  IN /\ p.userId = q.userId /\ p.shift = "AM"
                     /\ p.assignedClients = <<>> /\ p.isAvailable
                     /\ p.totalMilkQuantity = 0
                     /\ last'.status = 200 /\ last'.staffId = p.id
      ]_vars

\* C22 witness: a profile was created for a staff account that had none
\* and was returned to the caller.
C22_Witness ==
    /\ last.op = "getByUserId" /\ last.status = 200 /\ ~last.existed
    /\ \E i \in 1..Len(directory) :
            directory[i].id = last.staffId /\ directory[i].userId = last.user

\* the staff accounts
StaffAccounts == {u \in Accounts : role[u] = "staff"}

\* C23: after any sequence or interleaving of resolveStaffForAccount calls
\* for a staff account exactly one profile exists for it and every call
\* returns that profile; a repeated call resets neither the assignment set
\* nor the shift of the profile.
C23_ResolveIdempotent ==
    [][ /\ \A u \in StaffAccounts :
            (getByUserId(u) /\ pending' = pending)
            => /\ last'.status = 200
               /\ StaffOfAccount(u)' = {[id |-> last'.staffId]}
               /\ UNCHANGED <<directory, assignedClients>>
        /\ \A q \in pending :
            getByUserIdCreate(q)
            => /\ last'.status = 200
               /\ StaffOfAccount(q.userId)' = {[id |-> last'.staffId]}
               /\ \A i \in 1..Len(directory) : directory'[i] = directory[i]
      ]_vars

(* ---------------------------- reasons ---------------------------------- *)
\* C24: in every state reached through the recording operations every
\* delivery record with status Not Delivered carries a non-empty note.
C24_NotDeliveredHasReason ==
    \A r \in deliveries : r.deliveryStatus = "Not Delivered" => r.notes # NoReason

\* C25: in the call path that requires a reason (markClientDailyUndelivered)
\* a request with an empty or missing reason fails with InvalidInput and
\* leaves the delivery records and the status, notes and history of the
\* client unchanged.
C25_ReasonRequired ==
    [][ \A s \in StaffIds, c \in Recorded, sh \in Shifts \cup {NoShift} :
            markClientDailyUndelivered(s, c, sh, NoReason)
            => /\ last'.op = DailyUndeliveredOp /\ last'.status = 400
               /\ UNCHANGED <<deliveries, deliveryStatus, deliveryNotes,
                              deliveryHistory>>
      ]_vars

\* C25 witness: a request without a reason for a client with a delivery
\* record was refused.
C25_Witness ==
    /\ last.op = DailyUndeliveredOp /\ last.status = 400
    /\ last.msg = "Reason is required for non-delivery"
    /\ deliveries # {}

(* ---------------------------- Aggregation Engine ----------------------- *)
\* the instants a date range starts and ends at: the dates of the stored
\* records, an instant before today and the first instant of tomorrow
RangeDates == {r.date : r \in deliveries} \cup {today - 1, today + DayLen}

\* the number of Delivered records of a range with a quantity and a price
Matching(startDate, endDate, q, p) ==
    Cardinality({r \in deliveries :
                    /\ startDate <= r.date /\ r.date <= endDate
                    /\ r.deliveryStatus = "Delivered"
                    /\ r.quantity = q /\ r.price = p})

\* the quantities and prices of the stored records
Quantities == {r.quantity : r \in deliveries}
Prices == {r.price : r \in deliveries}

\* the sums of quantity and price over the Delivered records of a range
PeriodTotals(startDate, endDate) ==
    [quantity |-> Sum([x \in Quantities \X Prices |->
                            x[1] * Matching(startDate, endDate, x[1], x[2])],
                      Quantities \X Prices),
     revenue |-> Sum([x \in Quantities \X Prices |->
                            x[2] * Matching(startDate, endDate, x[1], x[2])],
                     Quantities \X Prices)]

\* C26: for every date range the period totals are the sums of quantity
\* and of price over exactly the Delivered records of the range, and are
\* {quantity: 0, revenue: 0} when the range holds no Delivered record; so
\* are the totals of the day and of the month in an answer of the dashboard.
C26_PeriodTotals ==
    /\ [](\A startDate, endDate \in RangeDates :
            getTodaysDeliveryTotal(startDate, endDate)
                = PeriodTotals(startDate, endDate))
    /\ [](\A date \in RangeDates :
            getMonthlyDeliveryTotal(date)
                = PeriodTotals(FirstDay(date), LastDay(date)))
    /\ [][ report' # report
            => /\ report'.today
                    = PeriodTotals(report'.startDate, report'.endDate)
               /\ report'.monthly
                    = PeriodTotals(FirstDay(report'.date), LastDay(report'.date))
       ]_vars

\* C26 witness: the dashboard answered with the totals of a day that holds
\* a Delivered and a Not Delivered record, and the totals are those of the
\* Delivered record alone.
C26_Witness ==
    /\ report.op = "getDashboardData"
    /\ report.today.quantity > 0
    /\ report.today = PeriodTotals(report.startDate, report.endDate)
    /\ \E r \in deliveries :
            /\ r.date >= report.startDate /\ r.date <= report.endDate
            /\ r.deliveryStatus = "Not Delivered"

\* the records of a collection that fall in the range of an answer of
\* getDeliveryTrends and in its bucket of a key
InBucket(coll, answer, key) ==
    {r \in coll : /\ r.date >= answer.start /\ r.date <= answer.end
                  /\ GroupBy(answer.period, r.date) = key}

\* C30: in every trend bucket the reported delivered count is the number of
\* records of the bucket whose status is Delivered, and the reported success
\* rate is that count divided by the delivery count of the bucket, times 100.
C30_TrendBuckets ==
    [][ (report' # report /\ report'.op = "getDeliveryTrends")
        => \A i \in 1..Len(report'.trends) :
            LET b == report'.trends[i]
                delivered == Cardinality(Delivered(InBucket(deliveries', report', b.period)))
            IN /\ b.successfulDeliveries = delivered
               /\ b.successRate[1] * b.totalDeliveries
                    = 100 * delivered * b.successRate[2]
      ]_vars

\* a rate is delivered / total * 100, or 0 when total is 0, and lies
\* between 0 and 100
IsRate(rate, delivered, total) ==
    /\ rate[2] > 0 /\ rate[1] >= 0 /\ rate[1] <= 100 * rate[2]
    /\ IF total = 0 THEN rate[1] = 0
       ELSE rate[1] * total = 100 * delivered * rate[2]

\* the rates of the range of a day, of its staff groups and of its shift
\* groups are delivered / total * 100 of the records they are computed from
RatesOfRange(startDate, endDate) ==
    LET matched == {r \in deliveries : startDate <= r.date /\ r.date <= endDate}
    IN
    /\ IsRate(getDeliverySuccessRate(startDate, endDate).successRate,
              Cardinality(Delivered(matched)), Cardinality(matched))
    /\ \A g \in getStaffPerformance(startDate, endDate) :
            LET group == {r \in matched : r.staffId = g.id}
            IN IsRate(g.successRate, Cardinality(Delivered(group)),
                      Cardinality(group))
    /\ \A g \in getShiftAnalytics(startDate, endDate) :
            LET group == {r \in matched : r.shift = g.shift}
            IN IsRate(g.successRate, Cardinality(Delivered(group)),
                      Cardinality(group))

\* C27: every success rate of the Aggregation Engine (overall, per staff,
\* per shift, per trend bucket) is delivered_count / total_count * 100 when
\* total_count > 0 and 0 when total_count = 0, and so lies between 0 and 100.
C27_SuccessRates ==
    /\ [](\A startDate, endDate \in RangeDates : RatesOfRange(startDate, endDate))
    /\ [][ (report' # report /\ report'.op = "getDeliveryTrends")
            => \A i \in 1..Len(report'.trends) :
                LET b == report'.trends[i]
                    group == InBucket(deliveries', report', b.period)
                IN IsRate(b.successRate, Cardinality(Delivered(group)),
                          Cardinality(group))
       ]_vars

\* the staff groups and the shift groups of a range sum to its ungrouped
\* counts
GroupsSumUp(staffGroups, shiftGroups, ungrouped) ==
    /\ Sum([g \in staffGroups |-> g.deliveredCount], staffGroups)
            = ungrouped.delivered
    /\ Sum([g \in staffGroups |-> g.deliveredCount + g.notDeliveredCount],
           staffGroups) = ungrouped.total
    /\ Sum([g \in shiftGroups |-> g.deliveredCount], shiftGroups)
            = ungrouped.delivered
    /\ Sum([g \in shiftGroups |-> g.deliveryCount], shiftGroups)
            = ungrouped.total

\* C28: for every stored record set and date range the per-staff groups sum
\* to the ungrouped computation over the range: the sum of deliveredCount
\* is the ungrouped delivered count and the sum of deliveredCount +
\* notDeliveredCount is the ungrouped total; the same holds for the
\* per-shift groups.
C28_GroupsSumToUngrouped ==
    /\ [](\A startDate, endDate \in RangeDates :
            GroupsSumUp(getStaffPerformance(startDate, endDate),
                        getShiftAnalytics(startDate, endDate),
                        getDeliverySuccessRate(startDate, endDate)))
    /\ [][ (report' # report /\ report'.op = "getDashboardData")
            => GroupsSumUp(report'.staffPerformance, report'.shiftAnalytics,
                           report'.deliverySuccessRate) ]_vars

\* C28 witness: the dashboard answered for a day with a Delivered record of
\* one staff member and a Not Delivered record of another, in two staff
\* groups and two shift groups.
C28_Witness ==
    /\ report.op = "getDashboardData"
    /\ Cardinality(report.staffPerformance) = 2
    /\ Cardinality(report.shiftAnalytics) = 2
    /\ report.deliverySuccessRate.total = 2
    /\ report.deliverySuccessRate.delivered = 1

\* the group of a staff id in the per-staff performance, without its label
Unlabelled(groups) ==
    {[id |-> g.id, deliveredCount |-> g.deliveredCount,
      notDeliveredCount |-> g.notDeliveredCount,
      totalQuantity |-> g.totalQuantity, totalRevenue |-> g.totalRevenue,
      successRate |-> g.successRate] : g \in groups}

\* C29: deleting a staff profile removes none of its delivery records from
\* aggregation: the per-staff performance computed after the deletion holds
\* the same groups with the same counts and sums, the group of the deleted
\* staff labelled "Unknown Staff".
C29_DeletedStaffKept ==
    /\ [][ (last'.op = "remove" /\ last'.status = 200 /\ staffSet' # staffSet)
            => \A startDate, endDate \in RangeDates :
                /\ Unlabelled(getStaffPerformance(startDate, endDate)')
                        = Unlabelled(getStaffPerformance(startDate, endDate))
                /\ \A g \in getStaffPerformance(startDate, endDate)' :
                        g.id \notin staffSet' => g.staffName = "Unknown Staff"
       ]_vars
    /\ [][ (report' # report /\ report'.op = "getDashboardData")
            => /\ Unlabelled(report'.staffPerformance)
                    = Unlabelled(getStaffPerformance(report'.startDate,
                                                     report'.endDate))
               /\ \A g \in report'.staffPerformance :
                        g.id \notin staffSet => g.staffName = "Unknown Staff"
       ]_vars

\* C29 witness: the dashboard answered after the deletion of a staff member
\* with a group of a Delivered record of that staff member, labelled
\* "Unknown Staff".
C29_Witness ==
    /\ report.op = "getDashboardData"
    /\ \E g \in report.staffPerformance :
            /\ g.id \in StaffIds \ staffSet
            /\ g.staffName = "Unknown Staff"
            /\ g.deliveredCount = 1 /\ g.totalQuantity > 0

(* ---------------------------- non-delivery reasons --------------------- *)
\* the Not Delivered records of the range of an answer that carry a note
NotedNonDeliveries(coll, answer) ==
    {r \in coll : /\ r.date >= answer.start /\ r.date <= answer.end
                  /\ r.deliveryStatus = "Not Delivered" /\ r.notes # NoReason}

\* C31: getNonDeliveryReasons returns one entry for every distinct non-empty
\* note of a Not Delivered record of the range, with the number of such
\* records as its count, and no other entry, ordered by count descending;
\* the result is not empty when the range holds such a record.
C31_ReasonsSummary ==
    [][ (report' # report /\ report'.op = "getNonDeliveryReasons")
        => LET noted == NotedNonDeliveries(deliveries', report')
               seq == report'.nonDeliveryReasons
           IN /\ {seq[i] : i \in DOMAIN seq}
                    = {[reason |-> n,
                        count |-> Cardinality({r \in noted : r.notes = n})]
                            : n \in {r.notes : r \in noted}}
              /\ Len(seq) = Cardinality({r.notes : r \in noted})
              /\ \A i, j \in DOMAIN seq : i < j => seq[i].count >= seq[j].count
      ]_vars


\* the record the last request wrote, when it was a daily recording that
\* succeeded: the latest record of its client and shift
LastWritten(coll, answer) ==
    IF answer.status = 200
       /\ answer.op \in {"markClientDailyDelivered",
                         "markClientDailyUndelivered"}
    THEN {r \in coll :
            /\ r.clientId = answer.clientId /\ r.shift = answer.shift
            /\ \A q \in coll :
                  (q.clientId = r.clientId /\ q.shift = r.shift)
                      => q.date <= r.date}
    ELSE {}

\* the snapshot of an answer has one row for each client with a matching
\* record, made from a record of the greatest date of the client, and from
\* the record written last when that one is among them
LatestPerClient(coll, answer, written) ==
    LET matched == {r \in coll :
                      /\ answer.startDate <= r.date /\ r.date <= answer.endDate
                      /\ answer.shiftFilter \in Shifts
                            => r.shift = answer.shiftFilter}
        ids == {r.clientId : r \in matched}
        Latest(c) == {r \in matched :
                        /\ r.clientId = c
                        /\ \A q \in matched :
                              q.clientId = c => q.date <= r.date}
        rows == answer.deliveryRecords
    IN /\ Cardinality(rows) = Cardinality(ids)
       /\ \A c \in ids :
            \E row \in rows :
                /\ row.clientName = clientName[c]
                /\ \E r \in Latest(c) :
                      /\ row.shift = r.shift /\ row.status = r.deliveryStatus
                      /\ row.quantity = r.quantity /\ row.price = r.price
                /\ \A w \in written \cap Latest(c) :
                      /\ row.shift = w.shift /\ row.status = w.deliveryStatus
                      /\ row.quantity = w.quantity /\ row.price = w.price

\* C32: the snapshot of getDashboard has exactly one row for each client
\* with a record of the range matching the shift filter, and the row is
\* the most recent such record of the client, the record written later
\* winning between two records of the same date
C32_LatestPerClient ==
    [][ (report' # report /\ report'.op = "getDashboardData")
          => LatestPerClient(deliveries', report',
                             LastWritten(deliveries', last')) ]_vars


\* C33: two evaluations of getDashboard with the same arguments over the
\* same stored data return identical results: every snapshot the
\* operation can return for the arguments of an answer, over the data it
\* was given from, is the one it gave
C33_Deterministic ==
    [][ (report' # report /\ report'.op = "getDashboardData")
          => \A again \in getTodaysDeliveryRecords(report'.startDate,
                               report'.endDate, report'.shiftFilter) :
                again = report'.deliveryRecords ]_vars


\* the calendar day of the system's local time a stored date belongs to
CalendarDay(date) == (date + tz) \div DayLen

\* the records recorded on the calendar day an answer of the dashboard is for
RecordedOn(coll, answer) ==
    {r \in coll : CalendarDay(r.date) = DayOf(answer.startDate)}

\* C34: a record written on calendar day D, stored at the midnight of D, is
\* counted in the totals and the groups of getDashboard for day D and for
\* no other day, for every offset of the local time from UTC: the totals
\* of an answer are the sums over the Delivered records of its day, and
\* its groups are those of the staff and the shifts of the records of
\* its day
C34_SameDay ==
    [][ (report' # report /\ report'.op = "getDashboardData")
          => LET day == RecordedOn(deliveries', report')
                 done == {r \in day : r.deliveryStatus = "Delivered"}
             IN /\ report'.today.quantity
                      = Sum([r \in done |-> r.quantity], done)
                /\ report'.today.revenue
                      = Sum([r \in done |-> r.price], done)
                /\ {g.id : g \in report'.staffPerformance}
                      = {r.staffId : r \in day}
                /\ {g.shift : g \in report'.shiftAnalytics}
                      = {r.shift : r \in day} ]_vars


\* the calendar day, week or month of the local time a stored date
\* belongs to, counted from the first one
CalendarPeriod(period, date) ==
    IF period = "weekly" THEN CalendarDay(date) \div DaysPerWeek
    ELSE IF period = "monthly" THEN CalendarDay(date) \div DaysPerMonth
    ELSE CalendarDay(date)

\* the records of the range of an answer of getDeliveryTrends
TrendRange(coll, answer) ==
    {r \in coll : r.date >= answer.start /\ r.date <= answer.end}

\* C35: getTrends returns exactly one bucket for each calendar day, week
\* or month of the requested period that holds a record of the range,
\* counts every record of the range in exactly one bucket, puts two
\* records in one bucket only if they fall in the same calendar day, week
\* or month, and returns the buckets in ascending order of their keys
C35_Buckets ==
    [][ (report' # report /\ report'.op = "getDeliveryTrends")
          => LET trends == report'.trends
                 matched == TrendRange(deliveries', report')
                 In(i) == InBucket(deliveries', report', trends[i].period)
             IN /\ Len(trends)
                      = Cardinality({CalendarPeriod(report'.period, r.date) :
                                        r \in matched})
                /\ \A r \in matched :
                      Cardinality({i \in 1..Len(trends) : r \in In(i)}) = 1
                /\ \A i \in 1..Len(trends) :
                      /\ trends[i].totalDeliveries = Cardinality(In(i))
                      /\ \A r, q \in In(i) :
                            CalendarPeriod(report'.period, r.date)
                              = CalendarPeriod(report'.period, q.date)
                /\ \A i, j \in 1..Len(trends) :
                      i < j => KeyBefore(trends[i].period, trends[j].period)
       ]_vars


\* the records a staff member recorded: those that carry the id of the
\* staff member or of the account of the staff member
RecordedBy(coll, staffId) ==
    {r \in coll : r.staffId = staffId
                    \/ (staffId \in StaffIds /\ r.staffId = userId[staffId])}

\* C36: listByStaffAndDay(S, D) returns exactly the records recorded by S
\* for day D, through whichever recording operation they were written,
\* and changes no stored state
C36_ListByStaffAndDay ==
    [][ (report' # report /\ report'.op = "getDailyDeliveries"
            /\ report'.status = 200)
          => /\ report'.deliveries
                  = {r \in RecordedBy(deliveries', report'.staffId) :
                        CalendarDay(r.date) = CalendarDay(report'.date)}
             /\ UNCHANGED <<ledgerVars, deliveries, clientVars, sessions,
                            directory>> ]_vars


\* the sessions of a staff member for today
TodaysSessions(coll, staffId, day) ==
    {i \in DOMAIN coll : coll[i].staffId = staffId /\ coll[i].date = day}

\* C37: without includeAll, getAssignedClients(S) returns exactly the
\* assigned clients of S whose shift is the shift X of the session S has
\* for today, those of shift Y after a later selectShift(S, Y), and all
\* the assigned clients of S when S has no session for today
C37_GatedBySession ==
    [][ (report' # report /\ report'.op = "getAssignedClients"
            /\ report'.status = 200 /\ ~report'.includeAll)
          => LET S == report'.staffId
                 mine == Range(assignedClients'[S])
                 mySessions == TodaysSessions(sessions', S, LocalMidnight(now'))
                 Of(shift) == {c \in mine : timeShift[c] = shift}
             IN /\ mySessions = {} => Range(report'.clients) = mine
                /\ \A i \in mySessions :
                      Range(report'.clients) = Of(sessions'[i].shift)
                /\ (last'.op = "selectShift" /\ last'.status = 200
                        /\ last'.staffId = S
                        /\ last'.date = LocalMidnight(now'))
                      => Range(report'.clients) = Of(last'.shift) ]_vars


\* C38: after a recordDelivered call and a recordNotDelivered call for the
\* same (client, day, shift) key have run to completion, in any
\* interleaving, the mirrored status of the client is the status of the
\* stored record of the key
C38_MirrorAfterInterleaving ==
    (/\ pending = {}
     /\ last.status = 200
     /\ last.op \in {"markClientDailyDelivered", "markClientDailyUndelivered"})
        => \A r \in deliveries :
              (r.clientId = last.clientId /\ r.date = last.date
                    /\ r.shift = last.shift)
                => deliveryStatus[last.clientId] = r.deliveryStatus


\* the ledger assignClient(staffId, clientId) leaves when it is called on
\* the ledger L of an existing staff member and client: L itself when the
\* request is refused
AssignOn(L, staffId, clientId) ==
    IF clientId \in Range(L.clients[staffId]) \/ L.staffOf[clientId] # NoStaff
    THEN L
    ELSE [clients |-> PushClient(L.clients, staffId, clientId),
          staffOf |-> SetAssignedStaff(L.staffOf, clientId, staffId)]

\* the ledger removeAssignment(staffId, clientId) leaves when it is called
\* on the ledger L
UnassignOn(L, staffId, clientId) ==
    IF clientId \notin Range(L.clients[staffId])
    THEN L
    ELSE [clients |-> PullClient(L.clients, staffId, clientId),
          staffOf |-> ClearAssignedStaff(L.staffOf, clientId)]

\* the ledgers one call of assign or unassign leads to from a ledger
AfterOneCall(L) ==
    {AssignOn(L, s, c) : s \in staffSet, c \in Clients}
        \cup {UnassignOn(L, s, c) : s \in staffSet, c \in Clients}

\* the ledgers finite sequences of assign and unassign calls lead to
RECURSIVE AfterCalls(_)
AfterCalls(seen) ==
    LET more == seen \cup UNION {AfterOneCall(L) : L \in seen}
    IN IF more = seen THEN seen ELSE AfterCalls(more)

\* C39: no reachable state leaves a client permanently unassignable: for
\* every existing client and every existing staff member there is a
\* finite sequence of assign and unassign calls after which the client is
\* assigned to the staff member
C39_NeverStuck ==
    \A c \in Clients, s \in staffSet :
        \E L \in AfterCalls({[clients |-> assignedClients,
                               staffOf |-> assignedStaff]}) :
            c \in Range(L.clients[s]) /\ L.staffOf[c] = s


\* the quantities and revenues of the staff groups and of the shift groups
\* sum to the period totals
VolumesSumUp(staffGroups, shiftGroups, totals) ==
    /\ Sum([g \in staffGroups |-> g.totalQuantity], staffGroups)
            = totals.quantity
    /\ Sum([g \in staffGroups |-> g.totalRevenue], staffGroups)
            = totals.revenue
    /\ Sum([g \in shiftGroups |-> g.totalQuantity], shiftGroups)
            = totals.quantity
    /\ Sum([g \in shiftGroups |-> g.totalRevenue], shiftGroups)
            = totals.revenue

\* C40: for every state reached through the recording operations and
\* every date range, the sums of totalQuantity and of totalRevenue over
\* the per-staff groups, which count records of any status, are the
\* quantity and the revenue of the period totals, which count Delivered
\* records only; the same holds for the per-shift groups
C40_VolumesSumToTotals ==
    /\ [](\A startDate, endDate \in RangeDates :
            VolumesSumUp(getStaffPerformance(startDate, endDate),
                         getShiftAnalytics(startDate, endDate),
                         getTodaysDeliveryTotal(startDate, endDate)))
    /\ [][ (report' # report /\ report'.op = "getDashboardData")
            => VolumesSumUp(report'.staffPerformance, report'.shiftAnalytics,
                            report'.today) ]_vars

====
